---- MODULE Spec2Model ----
(***************************************************************************)
(* persishtent: the session daemon (server.Run, Server.broadcast,          *)
(* Server.handleClient) and the attach front-end (SessionClient).          *)
(*                                                                         *)
(* Spec      : the daemon with NConn connections, one PTY reader and the   *)
(*             shell's life cycle.                                         *)
(* FairSpec  : Spec with the fairness the Go scheduler gives the daemon's  *)
(*             goroutines.                                                 *)
(* SpecInput : processInput called on chunks of keystrokes.                *)
(* SpecDrain : DrainInput and the stdin pump of Stream.                    *)
(* SpecAttach: Attach from Connect to its return, with the daemon's frames.*)
(***************************************************************************)
EXTENDS Integers, Sequences, FiniteSets, TLC

\* ------------------------------------------------------------------ bounds
NConn == 2          \* connections the listener may accept
MaxFrames == 1      \* frames the handlers read after the Mode frames, in all
MaxChunks == 2      \* chunks the shell writes to the PTY
MaxInput == 4       \* bytes handed to processInput in SpecInput, in all
MaxStdin == 4       \* bytes read from stdin in SpecDrain, in all
MaxKeys == 3        \* bytes read from stdin in SpecAttach, in all
MaxRecv == 2        \* Data frames the daemon sends to the front-end
MaxWinch == 1       \* SIGWINCH signals the front-end gets
MaxFile == 5        \* bytes of the file replayTail reads
MaxTail == 3        \* the largest n given to replayTail
WindowSize == 2     \* bytes replayTail reads at a time: the 4096 of the
                    \* program, scaled to the files of the model
MaxSegments == 3    \* the largest max_log_rotations configured
MaxSegSize == 3     \* the largest segment size configured, in bytes
MaxWrites == 6      \* calls of LogRotator.Write
MaxWire == 3        \* writes to the stream of SpecWire
MaxSmall == 1       \* bytes of the short payloads of SpecWire
NSessions == 3      \* session names in the directory List reads

\* ------------------------------------------------------- protocol constants
TypeData == 1
TypeResize == 2
TypeSignal == 3
TypeKick == 4
TypeMode == 5
TypeEnv == 6
ModeMaster == 0
ModeReadOnly == 1
MaxPayloadSize == 65536
SIGKILL == 9
SIGWINCH == 28

Conns == 1..NConn
NoConn == 0          \* the nil net.Conn
LockFree == 0
NoRole == -1

\* Payload tokens: the prefix "SSH_AUTH_SOCK=" and some other KEY= prefix.
EnvSSH == 100
EnvOther == 101
UnknownRole == 2

\* ------------------------------------------------------------ byte values
ESC == 27            \* "\x1b"
BEL == 7             \* OSC terminator
CharD == 100         \* 'd'
CharX == 120         \* 'x': an ordinary keystroke, also a CSI final byte
CharOne == 49        \* '1': a CSI parameter byte, below the final-byte range
CharCSI == 91        \* '['
CharOSC == 93        \* ']'
CharST == 92         \* '\\'
CharDCS == 80        \* 'P'
CtrlD == 4           \* parseDetachKey default
CtrlA == 1           \* parseDetachKey("ctrl-a")
FinalLo == 64        \* 0x40
FinalHi == 126       \* 0x7E

\* The detach keys the configurations of the model choose from:
\* parseDetachKey yields 1..31.
DetachKeys == {CtrlA, CtrlD, ESC}

\* A frame as it arrives on the stream: type, declared length, payload bytes.
Frame(t, p) == [t |-> t, len |-> Len(p), p |-> p]
NoFrame == [t |-> 0, len |-> 0, p |-> <<>>]
\* The stream ends (EOF) before a header is complete.
EOFFrame == [t |-> 0, len |-> 0, p |-> <<>>, eof |-> TRUE]

VARIABLES
    Master,      \* Server.Master: NoConn or a connection
    Clients,     \* Server.Clients: the peer set
    Lock,        \* Server.Lock: LockFree or the handler holding it
    pc,          \* pc[c]: where connection c's handler goroutine is
    role,        \* role[c]: payload[0] of the accepted Mode frame (NoRole: none yet)
    cur,         \* cur[c]: the frame the handler has read and not yet applied
    srvClosed,   \* srvClosed[c]: the daemon called conn.Close()
    cliClosed,   \* cliClosed[c]: the front-end closed its end
    inbox,       \* inbox[c]: the frames the front-end received: TypeKick as 0, Data chunk n as n
    kicks,       \* kicks[c]: WritePacket(conn, TypeKick) calls made on c
    nFrames,     \* frames read by the handlers' loops so far
    produced,    \* chunks the shell wrote to the PTY
    nPub,        \* chunks the output loop read, logged and passed to broadcast
    ptyIn,       \* the bytes written to the PTY master
    winsize,     \* <<rows, cols>> of the PTY
    sigLog,      \* signals delivered to the child: {<<conn, sig>>}
    symlink,     \* target of N.ssh_auth_sock
    shell,       \* "running" | "exited"
    outLoop,     \* "reading" | "stopped": the output loop goroutine
    listener,    \* "open" | "closed"
    sockFile,    \* N.sock exists
    infoFile,    \* N.info exists
    daemon       \* "running" | "exited": Run returned

\* The attach front-end (internal/client).
VARIABLES
    DetachKey,       \* SessionClient.DetachKey
    ReadOnly,        \* SessionClient.ReadOnly
    pendingPrefix,   \* SessionClient.pendingPrefix
    detached,        \* SessionClient.detached (0 | 1)
    connOpen,        \* c.Conn has not been closed by the front-end
    peerUp,          \* the daemon's end of c.Conn is open
    sent,            \* the frames WritePacket put on c.Conn, in order
    hist             \* the calls ProcessInputCall made so far, in order:
                     \* [st0: state before, data, r: state and result after]

inputVars == <<DetachKey, ReadOnly, pendingPrefix, detached, connOpen, peerUp,
               sent, hist>>

VARIABLES
    dpc,        \* where the front-end's input side is: "select" | "match"
                \* (the match loop of the drain loop) | "flush" | "stream"
                \* (DrainInput returned, the pump of Stream runs) | "pumpDone"
    drainBuf,   \* drainBuf of DrainInput
    stdinOpen,  \* os.Stdin has not reported an error or end of file
    stdinLog,   \* every byte read from stdin so far, in order
    nReads,     \* the number of chunks the stdin reader delivered
    fed,        \* the positions in stdinLog of the bytes handed to
                \* processInput, in the order they were handed
    dropped     \* the positions of the bytes that left drainBuf without being
                \* handed to processInput

drainVars == <<dpc, drainBuf, stdinOpen, stdinLog, nReads, fed, dropped>>

VARIABLES
    apc,        \* where Attach is: "connect" | "handshake" | "makeraw" |
                \* "replay" | "drain" | "streamStart" | "reading" | "returned"
    termios,    \* "cooked" | "raw": the mode of the controlling terminal
    stdout,     \* what the front-end wrote to stdout, in order: <<"log">>,
                \* <<"dsr">>, <<"restore">>, <<"data", n>> for chunk n
    result,     \* what Attach returned: "none" | "nil" | "err" |
                \* "ErrDetached" | "ErrKicked"
    rx,         \* the frames the daemon wrote to c.Conn that Stream has not
                \* read yet: <<"Data", n>> for chunk n, <<"Kick">>
    nRecv,      \* the Data frames the daemon wrote so far
    nWinch      \* the SIGWINCH signals delivered so far

attachVars == <<apc, termios, stdout, result, rx, nRecv, nWinch>>

daemonVars == <<Master, Clients, Lock, pc, role, cur, srvClosed, cliClosed,
                inbox, kicks, nFrames, produced, nPub, ptyIn, winsize, sigLog,
                symlink, shell, outLoop, listener, sockFile, infoFile, daemon>>

feVars == <<inputVars, drainVars, attachVars>>

\* The daemon with the socket buffers between broadcast and its peers.
VARIABLES
    sockBuf,    \* sockBuf[c]: the frames written to connection c that its
                \* front-end has not read yet (the OS socket buffer)
    stalled,    \* stalled[c]: the front-end of c has stopped reading
    bpc,        \* where the output loop is: "read" (ptmx.Read) | "lock"
                \* (broadcast waits for s.Lock) | "write" (the range loop)
    todo,       \* the peers the range loop of broadcast has yet to visit
    logged      \* the chunks written to the log file

stallVars == <<sockBuf, stalled, bpc, todo, logged>>

\* replayTail (internal/client) on one log file.
VARIABLES
    tailFile,   \* the bytes of the file f
    tailN,      \* the argument n
    tailOut,    \* what replayTail wrote to w
    tailDone,   \* replayTail has returned
    tailSegs    \* the log files of the session, in GetLogFiles order, for
                \* the replay loop of Attach

tailVars == <<tailFile, tailN, tailOut, tailDone, tailSegs>>

\* LogRotator (internal/server) and the session's log files.
VARIABLES
    maxFiles,   \* LogRotator.maxFiles
    maxSize,    \* LogRotator.maxSize
    size,       \* LogRotator.size
    logDir,     \* the log files of the session on disk: [name, data], name
                \* the digits after "N.log." (none for N.log), data the
                \* serial numbers of the bytes in the file
    written,    \* the bytes given to Write so far
    nWrites,    \* the calls of Write so far
    fresh,      \* the session had no rotated segment when the sink started
    rotFailed,  \* rotate returned an error in the last Write
    activeWas,  \* what the active log held when the last Write began
    lastP,      \* the bytes given to the last Write
    nFaults     \* the rotations that failed so far

rotVars == <<maxFiles, maxSize, size, logDir, written, nWrites, fresh,
             rotFailed, activeWas, lastP, nFaults>>

\* protocol.WritePacket and protocol.ReadPacket on one byte stream.
VARIABLES
    wire,        \* the bytes written to the stream and not read yet, as
                 \* runs [b, n]: n times the byte b
    wOpen,       \* the writing end is open
    sentFrames,  \* the frames WritePacket put on the stream: [t, p], p in
                 \* runs
    lastWrite,   \* the last call of WritePacket: [call, len, err], the
                 \* number of the write, len(payload), the error returned
    foreign,     \* bytes not written by WritePacket are on the stream
    got,         \* the frames ReadPacket returned, in order: [t, p]
    rdErr,       \* the error that ended the reading: "none" | "EOF" |
                 \* "ErrUnexpectedEOF"
    consumed,    \* the bytes ReadPacket took from the stream, in all
    nWire        \* the writes made to the stream

wireVars == <<wire, wOpen, sentFrames, lastWrite, foreign, got, rdErr,
              consumed, nWire>>

\* session.List (internal/session) on the session directory.
VARIABLES
    dirFiles,    \* the files of ~/.persishtent: <<name, kind, k>>, kind
                 \* "sock" | "info" | "ssh_auth_sock" | "log", k the index
                 \* of a rotated log and 0 otherwise
    dirBefore,   \* dirFiles when List was called
    infoOf,      \* infoOf[name]: what N.info holds: [ok, name, pid], ok
                 \* FALSE for a file json.Unmarshal refuses
    alivePids,   \* the pids that answer signal 0
    listening,   \* the sessions whose socket has a listener
    listed,      \* the names of the Infos List returned, in order
    listDone,    \* List has returned
    cleanDone,   \* Clean has returned
    removedCount,\* the count Clean returned
    renameDone,  \* the rename command has ended
    oldName,     \* its arguments
    newName,
    renameErr,   \* it reported an error
    origin,      \* origin[f]: the file that f was when the call began: a
                 \* renamed file keeps what it holds
    bootPc       \* where Run of a daemon started for a session is:
                 \* "idle" (none started) | "open" | "pty" | "info" |
                 \* "listen" | "serving" | "waited" | "returned"

listVars == <<dirFiles, dirBefore, infoOf, alivePids, listening, listed,
              listDone, cleanDone, removedCount, renameDone, oldName,
              newName, renameErr, origin, bootPc>>

\* main (cmd/persishtent): one invocation of the command.
VARIABLES
    nesting,     \* PERSISHTENT_SESSION is non-empty in the environment
    argCmd,      \* os.Args[1]: "bare" when absent, "other" for a word that
                 \* is no command
    argName,     \* the positional name: "none" | "valid" | "invalid"
    argFlag,     \* -d of start, -a of kill
    sockThere,   \* the socket file of the named session exists
    nLive,       \* how many sessions List returns
    mainPc,      \* "entry" | "done"
    spawned,     \* a daemon was started
    dialed,      \* client.Attach or client.Kill was called
    listOut,     \* listSessions ran
    nestingErr,  \* the nesting error was printed
    exitStatus   \* -1 while main runs

cliVars == <<nesting, argCmd, argName, argFlag, sockThere, nLive, mainPc,
             spawned, dialed, listOut, nestingErr, exitStatus>>

\* cli.FindNextAutoName on the names of the sessions.
VARIABLES
    usedNames,   \* existingNames, as a set
    autoName,    \* the name returned
    autoDone     \* FindNextAutoName has returned

autoVars == <<usedNames, autoName, autoDone>>

\* Attach with replay (internal/client) beside the output loop of Run.
VARIABLES
    livePc,     \* where Attach is: "handshake" | "replay" | "stream"
    liveIn,     \* the handler has put the connection in s.Clients
    loopPc,     \* where the output loop is: "read" (ptmx.Read, then
                \* logFile.Write) | "broadcast"
    liveLog,    \* the chunks written to the log file, in order
    liveRx,     \* the Data frames written to the connection that Stream has
                \* not read yet, as chunk numbers
    liveOut     \* the chunks written to the front-end's stdout, in order

liveVars == <<livePc, liveIn, loopPc, liveLog, liveRx, liveOut>>

\* Two start commands for one session name (internal/cli StartSession, Run).
VARIABLES
    pairPc,     \* pairPc[i]: where start command i and the daemon it spawns
                \* are: "stat" | "attach" | "open" | "pty" | "info" |
                \* "remove" | "listen" | "serving" | "waited" | "returned" |
                \* "failed"
    sockOwner,  \* the daemon whose listener the file N.sock belongs to, 0
                \* when there is no such file
    shellsUp    \* the daemons whose shell is running

pairVars == <<pairPc, sockOwner, shellsUp>>

\* The two goroutines of Stream that write to c.Conn: the input pump and
\* the SIGWINCH handler.
VARIABLES
    muxPc,      \* muxPc[g]: "idle" | "payload": goroutine g is in
                \* WritePacket between w.Write(header) and w.Write(payload)
    muxCur,     \* muxCur[g]: the payload of the WritePacket call g is in
    muxWire,    \* the bytes written to the connection, in order
    muxSent     \* the frames given to WritePacket, in the order of the calls

muxVars == <<muxPc, muxCur, muxWire, muxSent>>

libVars == <<stallVars, tailVars, rotVars, wireVars, listVars, cliVars, autoVars, liveVars, pairVars, muxVars>>

\* What the daemon's actions, and the front-end's, leave alone.
offDaemon == <<feVars, libVars>>
offFrontEnd == <<daemonVars, libVars>>

\* What the actions of each other part leave alone, the daemon aside for
\* the output loop against the socket buffers.
offStall == <<feVars, tailVars, rotVars, wireVars, listVars, cliVars, autoVars, liveVars, pairVars, muxVars>>
offTail == <<daemonVars, feVars, stallVars, rotVars, wireVars, listVars, cliVars, autoVars, liveVars, pairVars, muxVars>>
offRot == <<daemonVars, feVars, stallVars, tailVars, wireVars, listVars, cliVars, autoVars, liveVars, pairVars, muxVars>>
offWire == <<daemonVars, feVars, stallVars, tailVars, rotVars, listVars, cliVars, autoVars, liveVars, pairVars, muxVars>>
offList == <<daemonVars, feVars, stallVars, tailVars, rotVars, wireVars, cliVars, autoVars, liveVars, pairVars, muxVars>>
offCli == <<daemonVars, feVars, stallVars, tailVars, rotVars, wireVars, listVars, autoVars, liveVars, pairVars, muxVars>>
offAuto == <<daemonVars, feVars, stallVars, tailVars, rotVars, wireVars, listVars, cliVars, liveVars, pairVars, muxVars>>
offLive == <<daemonVars, feVars, stallVars, tailVars, rotVars, wireVars, listVars, cliVars, autoVars, pairVars, muxVars>>
offPair == <<daemonVars, feVars, stallVars, tailVars, rotVars, wireVars, listVars, cliVars, autoVars, liveVars, muxVars>>
offMux == <<daemonVars, feVars, stallVars, tailVars, rotVars, wireVars, listVars, cliVars, autoVars, liveVars, pairVars>>

vars == <<daemonVars, feVars, libVars>>

srvVars == <<Master, Clients, Lock>>
netVars == <<inbox, kicks>>
connVars == <<pc, role, cur, srvClosed, cliClosed>>
ptyVars == <<ptyIn, winsize, sigLog, symlink>>
runVars == <<shell, outLoop, listener, sockFile, infoFile, daemon>>
outVars == <<produced, nPub>>

\* ---------------------------------------------------------------- protocol
\* ReadPacket: an error for EOF, a declared length over MaxPayloadSize, or a
\* payload cut short.
ReadPacketErr(f) ==
    \/ "eof" \in DOMAIN f
    \/ f.len > MaxPayloadSize
    \/ f.len # Len(f.p)

\* WritePacket on a connection: fails once either end is closed.
WriteOK(c) == ~srvClosed[c] /\ ~cliClosed[c]

\* DecodeResizePayload
DecodeResizePayload(p) == IF Len(p) < 4 THEN <<0, 0>> ELSE <<p[1], p[2]>>
\* ResizePayload, two bytes per field kept as one element each, padded to 4.
ResizePayload(rows, cols) == <<rows, cols, 0, 0>>

\* What a front-end may put on the stream as its first frame.
FirstFrames(c) ==
    { Frame(TypeMode, <<ModeMaster>>), Frame(TypeMode, <<ModeReadOnly>>),
      Frame(TypeMode, <<UnknownRole>>), Frame(TypeMode, <<>>),
      Frame(TypeData, <<c>>),
      [t |-> TypeMode, len |-> MaxPayloadSize + 1, p |-> <<ModeMaster>>],
      EOFFrame }

\* What a front-end may send after that.
LoopFrames(c) ==
    { Frame(TypeData, <<c>>),
      Frame(TypeResize, ResizePayload(c, c)), Frame(TypeResize, <<c>>),
      Frame(TypeSignal, <<SIGWINCH>>), Frame(TypeSignal, <<SIGKILL>>),
      Frame(TypeSignal, <<>>),
      Frame(TypeEnv, <<EnvSSH, c>>), Frame(TypeEnv, <<EnvOther, c>>),
      Frame(TypeMode, <<ModeMaster>>),
      [t |-> TypeData, len |-> MaxPayloadSize + 1, p |-> <<c>>] }

\* -------------------------------------------------------------------- Init
\* The daemon once Run has set it up.
InitDaemon ==
    /\ Master = NoConn
    /\ Clients = {}
    /\ Lock = LockFree
    /\ pc = [c \in Conns |-> "idle"]
    /\ role = [c \in Conns |-> NoRole]
    /\ cur = [c \in Conns |-> NoFrame]
    /\ srvClosed = [c \in Conns |-> FALSE]
    /\ cliClosed = [c \in Conns |-> FALSE]
    /\ inbox = [c \in Conns |-> <<>>]
    /\ kicks = [c \in Conns |-> 0]
    /\ nFrames = 0
    /\ produced = 0
    /\ nPub = 0
    /\ ptyIn = <<>>
    /\ winsize = <<0, 0>>
    /\ sigLog = {}
    /\ symlink = 0
    /\ shell = "running"
    /\ outLoop = "reading"
    /\ listener = "open"
    /\ sockFile = TRUE
    /\ infoFile = TRUE
    /\ daemon = "running"

\* No front-end of the model runs beside the daemon of Spec.
NoFrontEnd ==
    /\ DetachKey = CtrlD /\ ReadOnly = FALSE
    /\ pendingPrefix = FALSE /\ detached = 0
    /\ connOpen = FALSE /\ peerUp = FALSE
    /\ sent = <<>> /\ hist = <<>>
    /\ dpc = "select" /\ drainBuf = <<>>
    /\ stdinOpen = FALSE /\ stdinLog = <<>> /\ nReads = 0
    /\ fed = <<>> /\ dropped = {}
    /\ apc = "connect" /\ termios = "cooked"
    /\ stdout = <<>> /\ result = "none"
    /\ rx = <<>> /\ nRecv = 0 /\ nWinch = 0

\* The socket buffers are left out: a write is delivered at once.
NoStall ==
    /\ sockBuf = [c \in Conns |-> <<>>]
    /\ stalled = [c \in Conns |-> FALSE]
    /\ bpc = "read"
    /\ todo = {}
    /\ logged = 0

\* replayTail is not called.
NoTail ==
    /\ tailFile = <<>> /\ tailN = 0 /\ tailOut = <<>> /\ tailDone = FALSE
    /\ tailSegs = <<>>

\* No LogRotator is made.
NoRotator ==
    /\ maxFiles = 0 /\ maxSize = 0 /\ size = 0 /\ logDir = {}
    /\ written = 0 /\ nWrites = 0 /\ fresh = TRUE
    /\ rotFailed = FALSE /\ activeWas = <<>> /\ lastP = <<>>
    /\ nFaults = 0

\* No stream of the protocol package on its own.
NoWire ==
    /\ wire = <<>> /\ wOpen = FALSE /\ sentFrames = <<>>
    /\ lastWrite = [call |-> 0, len |-> 0, err |-> "none"] /\ foreign = FALSE
    /\ got = <<>> /\ rdErr = "none" /\ consumed = 0 /\ nWire = 0

\* List is not called.
NoList ==
    /\ dirFiles = {} /\ dirBefore = {} /\ infoOf = <<>> /\ alivePids = {}
    /\ listening = {} /\ listed = <<>> /\ listDone = FALSE
    /\ cleanDone = FALSE /\ removedCount = 0
    /\ renameDone = FALSE /\ oldName = 0 /\ newName = 0
    /\ renameErr = FALSE /\ origin = <<>> /\ bootPc = "idle"

\* main is not run.
NoCli ==
    /\ nesting = FALSE /\ argCmd = "bare" /\ argName = "none"
    /\ argFlag = FALSE /\ sockThere = FALSE /\ nLive = 0
    /\ mainPc = "done" /\ spawned = FALSE /\ dialed = FALSE
    /\ listOut = FALSE /\ nestingErr = FALSE /\ exitStatus = 0

\* FindNextAutoName is not called.
NoAuto == usedNames = {} /\ autoName = <<>> /\ autoDone = FALSE

\* No front-end attaches with replay.
NoLive ==
    /\ livePc = "handshake" /\ liveIn = FALSE /\ loopPc = "read"
    /\ liveLog = <<>> /\ liveRx = <<>> /\ liveOut = <<>>

\* No start command runs.
NoPair == pairPc = <<>> /\ sockOwner = 0 /\ shellsUp = {}

\* Stream is not running.
NoMux == muxPc = <<>> /\ muxCur = <<>> /\ muxWire = <<>> /\ muxSent = <<>>

\* The parts of the program that a specification other than g's leaves out.
OthersIdle(g) ==
    /\ g = "stall" \/ NoStall
    /\ g = "tail" \/ NoTail
    /\ g = "rot" \/ NoRotator
    /\ g = "wire" \/ NoWire
    /\ g = "list" \/ NoList
    /\ g = "cli" \/ NoCli
    /\ g = "auto" \/ NoAuto
    /\ g = "live" \/ NoLive
    /\ g = "pair" \/ NoPair
    /\ g = "mux" \/ NoMux

Init == InitDaemon /\ NoFrontEnd /\ OthersIdle("daemon")

\* ------------------------------------------- Run: accept loop, handleClient
\* Variant: the frame type is not looked at.
FirstAcceptedAnyType(f) == ~ReadPacketErr(f) /\ Len(f.p) >= 1

\* The first ReadPacket accepts a Mode frame with a payload, nothing else.
FirstAccepted(f) == ~ReadPacketErr(f) /\ f.t = TypeMode /\ Len(f.p) >= 1

\* Variant: the role byte is compared with the wrong constant.
isReadOnlyWrongByte(c) == role[c] = UnknownRole

\* isReadOnly := payload[0] == 0x01
isReadOnly(c) == role[c] = ModeReadOnly

\* l.Accept() returns a connection; its handler reads the first frame and
\* closes the connection unless the frame is accepted.
Accept(c, f) ==
    /\ daemon = "running"
    /\ listener = "open"
    /\ pc[c] = "idle"
    /\ f \in FirstFrames(c)
    /\ IF FirstAccepted(f)
         THEN /\ role' = [role EXCEPT ![c] = f.p[1]]
              /\ pc' = [pc EXCEPT ![c] = "lock"]
              /\ UNCHANGED <<srvClosed, cliClosed>>
         ELSE /\ srvClosed' = [srvClosed EXCEPT ![c] = TRUE]
              /\ cliClosed' = [cliClosed EXCEPT ![c] = (f = EOFFrame)]
              /\ pc' = [pc EXCEPT ![c] = "done"]
              /\ UNCHANGED role
    /\ UNCHANGED <<srvVars, cur, netVars, nFrames, outVars, ptyVars, runVars>>
    /\ UNCHANGED offDaemon

\* Variant: the Kick is written but the displaced connection is left open.
kickMasterNoClose ==
    /\ kicks' = [kicks EXCEPT ![Master] = @ + 1]
    /\ inbox' = IF WriteOK(Master) THEN [inbox EXCEPT ![Master] = Append(@, 0)]
                                   ELSE inbox
    /\ UNCHANGED srvClosed

\* WritePacket(s.Master, TypeKick, nil); s.Master.Close()
kickMaster ==
    /\ kicks' = [kicks EXCEPT ![Master] = @ + 1]
    /\ inbox' = IF WriteOK(Master) THEN [inbox EXCEPT ![Master] = Append(@, 0)]
                                   ELSE inbox
    /\ srvClosed' = [srvClosed EXCEPT ![Master] = TRUE]

\* s.Lock.Lock(); a master kicks and closes the current master and takes the
\* slot.
InstallLock(c) ==
    /\ daemon = "running"
    /\ pc[c] = "lock"
    /\ Lock = LockFree
    /\ Lock' = c
    /\ pc' = [pc EXCEPT ![c] = "insert"]
    /\ IF ~isReadOnly(c)
         THEN /\ IF Master # NoConn THEN kickMaster
                                    ELSE UNCHANGED <<kicks, inbox, srvClosed>>
              /\ Master' = c
         ELSE UNCHANGED <<Master, kicks, inbox, srvClosed>>
    /\ UNCHANGED <<Clients, role, cur, cliClosed, nFrames, outVars, ptyVars,
                   runVars>>
    /\ UNCHANGED offDaemon

\* s.Clients[conn] = struct{}{}; s.Lock.Unlock()
InstallInsert(c) ==
    /\ daemon = "running"
    /\ pc[c] = "insert"
    /\ Lock = c
    /\ Clients' = Clients \cup {c}
    /\ Lock' = LockFree
    /\ pc' = [pc EXCEPT ![c] = "loop"]
    /\ UNCHANGED <<Master, role, cur, srvClosed, cliClosed, netVars,
                   nFrames, outVars, ptyVars, runVars>>
    /\ UNCHANGED offDaemon

\* The loop's ReadPacket. An error ends the handler; an observer's frame is
\* skipped; a master's frame goes to the switch.
ReadFrame(c, f) ==
    /\ daemon = "running"
    /\ pc[c] = "loop"
    /\ IF srvClosed[c] \/ cliClosed[c]
         THEN /\ f = EOFFrame
              /\ UNCHANGED nFrames
         ELSE /\ f \in LoopFrames(c)
              /\ nFrames < MaxFrames
              /\ nFrames' = nFrames + 1
    /\ IF ReadPacketErr(f)
         THEN pc' = [pc EXCEPT ![c] = "exit"] /\ UNCHANGED cur
         ELSE IF isReadOnly(c)
                THEN UNCHANGED <<pc, cur>>
                ELSE /\ pc' = [pc EXCEPT ![c] = "switch"]
                     /\ cur' = [cur EXCEPT ![c] = f]
    /\ UNCHANGED <<srvVars, role, srvClosed, cliClosed, netVars,
                   outVars, ptyVars, runVars>>
    /\ UNCHANGED offDaemon

\* switch t { ... }
Dispatch(c) ==
    /\ daemon = "running"
    /\ pc[c] = "switch"
    /\ LET f == cur[c] IN
       /\ ptyIn' = IF f.t = TypeData THEN ptyIn \o f.p ELSE ptyIn
       /\ winsize' = IF f.t = TypeResize THEN DecodeResizePayload(f.p) ELSE winsize
       /\ sigLog' = IF f.t = TypeSignal /\ Len(f.p) > 0
                      THEN sigLog \cup {<<c, f.p[1]>>} ELSE sigLog
       /\ shell' = IF f.t = TypeSignal /\ Len(f.p) > 0 /\ f.p[1] = SIGKILL
                     THEN "exited" ELSE shell
       /\ symlink' = IF f.t = TypeEnv /\ Len(f.p) >= 1 /\ f.p[1] = EnvSSH
                       THEN f.p[2] ELSE symlink
    /\ cur' = [cur EXCEPT ![c] = NoFrame]
    /\ pc' = [pc EXCEPT ![c] = "loop"]
    /\ UNCHANGED <<srvVars, role, srvClosed, cliClosed, netVars,
                   nFrames, outVars, outLoop, listener, sockFile, infoFile, daemon>>
    /\ UNCHANGED offDaemon

\* Variant: the deferred function clears the master slot without looking whose
\* it is.
DeferClearsSlot(c) ==
    /\ daemon = "running"
    /\ pc[c] = "exit"
    /\ Lock = LockFree
    /\ Clients' = Clients \ {c}
    /\ Master' = NoConn
    /\ srvClosed' = [srvClosed EXCEPT ![c] = TRUE]
    /\ pc' = [pc EXCEPT ![c] = "done"]
    /\ UNCHANGED <<Lock, role, cur, cliClosed, netVars, nFrames, outVars, ptyVars,
                   runVars>>
    /\ UNCHANGED offDaemon

\* Variant: losing the master's connection hangs up the shell, as a terminal
\* would.
DeferHangup(c) ==
    /\ daemon = "running"
    /\ pc[c] = "exit"
    /\ Lock = LockFree
    /\ Clients' = Clients \ {c}
    /\ Master' = IF Master = c THEN NoConn ELSE Master
    /\ srvClosed' = [srvClosed EXCEPT ![c] = TRUE]
    /\ pc' = [pc EXCEPT ![c] = "done"]
    /\ shell' = IF Master = c THEN "exited" ELSE shell
    /\ UNCHANGED <<Lock, role, cur, cliClosed, netVars, nFrames, outVars, ptyVars,
                   outLoop, listener, sockFile, infoFile, daemon>>
    /\ UNCHANGED offDaemon

\* The deferred function: under the lock, leave the peer set and clear the
\* slot if it is ours; then conn.Close(). (Nothing else in the daemon uses the
\* connection between the unlock and the Close, so they are one step.)
Defer(c) ==
    /\ daemon = "running"
    /\ pc[c] = "exit"
    /\ Lock = LockFree
    /\ Clients' = Clients \ {c}
    /\ Master' = IF Master = c THEN NoConn ELSE Master
    /\ srvClosed' = [srvClosed EXCEPT ![c] = TRUE]
    /\ pc' = [pc EXCEPT ![c] = "done"]
    /\ UNCHANGED <<Lock, role, cur, cliClosed, netVars, nFrames, outVars, ptyVars,
                   runVars>>
    /\ UNCHANGED offDaemon

\* ---------------------------------------------------------------- front-end
\* The front-end goes away: detach, killed, or its connection dropped. (Once
\* the daemon has closed the connection this changes nothing it can see.)
ClientClose(c) ==
    /\ daemon = "running"
    /\ pc[c] \notin {"idle", "done"}
    /\ ~cliClosed[c]
    /\ ~srvClosed[c]
    /\ cliClosed' = [cliClosed EXCEPT ![c] = TRUE]
    /\ UNCHANGED <<srvVars, pc, role, cur, srvClosed, netVars, nFrames,
                   outVars, ptyVars, runVars>>
    /\ UNCHANGED offDaemon

\* ------------------------------------------------------ Run: the output loop
\* The shell writes a chunk of output to its terminal.
ShellWrite ==
    /\ shell = "running"
    /\ produced < MaxChunks
    /\ produced' = produced + 1
    /\ UNCHANGED <<srvVars, connVars, netVars, nFrames, nPub, ptyVars, runVars>>
    /\ UNCHANGED offDaemon

\* The peers a broadcast drops: those whose WritePacket fails.
BroadcastDropped == {c \in Clients : ~WriteOK(c)}

\* Variant: broadcast returns at the first write error.
broadcastStopsOnError(chunk) ==
    /\ Lock = LockFree
    /\ inbox' = [c \in Conns |->
                   IF c \in Clients /\ BroadcastDropped = {}
                      THEN Append(inbox[c], chunk) ELSE inbox[c]]
    /\ srvClosed' = [c \in Conns |-> srvClosed[c] \/ c \in BroadcastDropped]
    /\ Clients' = Clients \ BroadcastDropped
    /\ UNCHANGED <<Master, Lock>>

\* broadcast(data): under the lock, one Data frame to every peer; a peer whose
\* write fails is closed and deleted from the peer set.
broadcast(chunk) ==
    /\ Lock = LockFree
    /\ inbox' = [c \in Conns |->
                   IF c \in Clients /\ WriteOK(c) THEN Append(inbox[c], chunk)
                                                 ELSE inbox[c]]
    /\ srvClosed' = [c \in Conns |-> srvClosed[c] \/ c \in BroadcastDropped]
    /\ Clients' = Clients \ BroadcastDropped
    /\ UNCHANGED <<Master, Lock>>

\* One iteration of the output loop: ptmx.Read returns a chunk, it is written
\* to the log and broadcast.
OutputRead ==
    /\ daemon = "running"
    /\ outLoop = "reading"
    /\ nPub < produced
    /\ nPub' = nPub + 1
    /\ broadcast(nPub + 1)
    /\ UNCHANGED <<pc, role, cur, cliClosed, kicks, nFrames, produced,
                   ptyVars, runVars>>
    /\ UNCHANGED offDaemon

\* ptmx.Read fails once the shell is gone and its output is read: the loop
\* breaks and closes the listener, which unlinks the socket file.
PtyEOF ==
    /\ daemon = "running"
    /\ outLoop = "reading"
    /\ shell = "exited"
    /\ nPub = produced
    /\ outLoop' = "stopped"
    /\ listener' = "closed"
    /\ sockFile' = FALSE
    /\ UNCHANGED <<srvVars, connVars, netVars, nFrames, outVars, ptyVars, shell,
                   infoFile, daemon>>
    /\ UNCHANGED offDaemon

\* --------------------------------------------------------- Run: shell, exit
\* The shell exits by itself.
ShellExit ==
    /\ shell = "running"
    /\ shell' = "exited"
    /\ UNCHANGED <<srvVars, connVars, netVars, nFrames, outVars, ptyVars, outLoop,
                   listener, sockFile, infoFile, daemon>>
    /\ UNCHANGED offDaemon

\* SIGTERM or SIGINT reaches the daemon: the signal goroutine kills the child.
DaemonSignal ==
    /\ daemon = "running"
    /\ shell = "running"
    /\ shell' = "exited"
    /\ UNCHANGED <<srvVars, connVars, netVars, nFrames, outVars, ptyVars, outLoop,
                   listener, sockFile, infoFile, daemon>>
    /\ UNCHANGED offDaemon

\* cmd.Wait() returns and Run's deferred functions run: the listener is
\* closed, N.sock and N.info are removed, the PTY and the log are closed.
RunReturn ==
    /\ daemon = "running"
    /\ shell = "exited"
    /\ daemon' = "exited"
    /\ listener' = "closed"
    /\ sockFile' = FALSE
    /\ infoFile' = FALSE
    /\ UNCHANGED <<srvVars, connVars, netVars, nFrames, outVars, ptyVars, shell,
                   outLoop>>
    /\ UNCHANGED offDaemon

\* -------------------------------------------------------------------- Next
Next ==
    \/ \E c \in Conns : \E f \in FirstFrames(c) : Accept(c, f)
    \/ \E c \in Conns : InstallLock(c)
    \/ \E c \in Conns : InstallInsert(c)
    \/ \E c \in Conns : \E f \in LoopFrames(c) \cup {EOFFrame} : ReadFrame(c, f)
    \/ \E c \in Conns : Dispatch(c)
    \/ \E c \in Conns : Defer(c)
    \/ \E c \in Conns : ClientClose(c)
    \/ ShellWrite
    \/ OutputRead
    \/ PtyEOF
    \/ ShellExit
    \/ DaemonSignal
    \/ RunReturn

Spec == Init /\ [][Next]_vars

\* cmd.Wait() returns once the child has exited, and the output loop's read
\* fails once the PTY has no writer left: both goroutines get to run.
FairSpec == Spec /\ WF_vars(RunReturn) /\ WF_vars(PtyEOF)

\* ------------------------------------------------------------------ helpers
Last(s) == s[Len(s)]
\* The Data frames of an inbox (the chunk numbers), in order.
RECURSIVE DataOf(_)
DataOf(s) == IF s = <<>> THEN <<>>
             ELSE IF s[1] = 0 THEN DataOf(Tail(s))
                  ELSE <<s[1]>> \o DataOf(Tail(s))
KickCount(s) == Cardinality({i \in 1..Len(s) : s[i] = 0})
IsMasterRole(c) == role[c] # NoRole /\ role[c] # ModeReadOnly
Installed(c) == pc[c] \in {"loop", "switch", "exit"}

\* ================================================================== claims
\* C1: a connection that declares the master role while another occupies the
\* master slot displaces it: the daemon makes exactly one Kick write on the
\* displaced connection and closes it, the newcomer holds the slot, and the
\* Kick is the last frame the displaced front-end receives (at most one Kick,
\* nothing after it; exactly one if its end was still open).
C1_KickOnce ==
    \A c \in Conns :
        /\ kicks[c] <= 1
        /\ KickCount(inbox[c]) <= kicks[c]
        /\ KickCount(inbox[c]) = 1 => Last(inbox[c]) = 0
        /\ kicks[c] = 1 => srvClosed[c] /\ Master # c
        /\ kicks[c] = 1 /\ ~cliClosed[c] => inbox[c] # <<>> /\ Last(inbox[c]) = 0
        /\ (IsMasterRole(c) /\ Installed(c) /\ Master # c /\ Lock = LockFree)
              => kicks[c] = 1
        /\ (IsMasterRole(c) /\ pc[c] = "insert") => Master = c

\* A displaced master that had received output, then its Kick, after which
\* the daemon published another chunk.
C1_Witness ==
    \E c \in Conns :
        /\ kicks[c] = 1
        /\ inbox[c] = <<1, 0>>
        /\ nPub = 2
        /\ Master \notin {c, NoConn}

\* C2 as stated: whenever the lock is free the peer set holds at most one
\* connection that declared the master role.
C2_Original ==
    Lock = LockFree => Cardinality({c \in Clients : IsMasterRole(c)}) <= 1

\* C2 amended: whenever the lock is free, the peer set holds at most one
\* master-role connection that the daemon has not closed, and it is the one in
\* the master slot; a displaced master has been kicked and closed in the
\* critical section that installed its successor, but may still be in the
\* peer set.
C2_OneOpenMaster ==
    Lock = LockFree =>
        /\ {c \in Clients : IsMasterRole(c) /\ ~srvClosed[c]} \subseteq {Master}
        /\ \A c \in Clients : IsMasterRole(c) /\ c # Master
                                 => srvClosed[c] /\ kicks[c] = 1

\* The lock is free and the peer set holds the new master and the displaced,
\* closed one.
C2_Witness ==
    /\ Lock = LockFree
    /\ \E c, d \in Clients :
          /\ c # d /\ IsMasterRole(c) /\ IsMasterRole(d)
          /\ Master = d /\ ~srvClosed[d] /\ srvClosed[c]


\* C3: a front-end going away (its end closed, the handler seeing EOF and
\* cleaning up) changes neither the shell nor the socket; while the shell
\* runs the socket file exists and the listener accepts; once the shell has
\* exited the socket file is eventually removed.
C3_Persistence ==
    /\ [](shell = "running" => sockFile /\ listener = "open")
    /\ [][(\E c \in Conns : ClientClose(c) \/ Defer(c) \/ ReadFrame(c, EOFFrame))
            => (shell' = shell /\ sockFile' = sockFile /\ listener' = listener)]_vars
    /\ (shell = "exited" ~> ~sockFile)

\* A master front-end has gone and its handler has cleaned up; the shell runs,
\* the socket is there and another front-end may connect.
C3_Witness ==
    \E c, d \in Conns :
        /\ IsMasterRole(c) /\ cliClosed[c] /\ pc[c] = "done" /\ kicks[c] = 0
        /\ pc[d] = "idle"
        /\ shell = "running" /\ sockFile /\ listener = "open"
        /\ ENABLED (\E f \in FirstFrames(d) : Accept(d, f))

\* The steps of connection c's handler after the Mode frame.
HandlerStep(c) ==
    \/ InstallLock(c)
    \/ InstallInsert(c)
    \/ \E f \in LoopFrames(c) \cup {EOFFrame} : ReadFrame(c, f)
    \/ Dispatch(c)
    \/ Defer(c)

\* Nothing in the PTY's state comes from connection c: no byte it sent was
\* written, the window size, a delivered signal and the symlink are not its.
NoTraceOf(c) ==
    /\ \A i \in 1..Len(ptyIn) : ptyIn[i] # c
    /\ winsize # <<c, c>>
    /\ \A e \in sigLog : e[1] # c
    /\ symlink # c

C4_NoTrace ==
    \A c \in Conns : role[c] = ModeReadOnly => NoTraceOf(c) /\ Master # c /\ pc[c] # "switch"

\* C4: no step of an observer's handler (its installation, every frame it
\* reads after Mode, its removal) writes to the PTY, changes the window size,
\* signals the child, changes the symlink, changes the master slot or sends a
\* Kick.
C4_ObserverInert ==
    [][ /\ \A c \in Conns :
             (role[c] = ModeReadOnly /\ HandlerStep(c))
                => /\ UNCHANGED <<ptyIn, winsize, sigLog, symlink, shell, Master, kicks>>
                   /\ \A d \in Conns : KickCount(inbox'[d]) = KickCount(inbox[d])
        /\ C4_NoTrace' ]_vars

\* Only an observer has connected, and it has sent a frame after Mode.
C4_Witness ==
    \E c \in Conns :
        /\ role[c] = ModeReadOnly /\ pc[c] = "loop" /\ c \in Clients
        /\ nFrames = MaxFrames
        /\ \A d \in Conns \ {c} : pc[d] = "idle"

C5_InOrder ==
    \A c \in Conns :
        LET d == DataOf(inbox[c]) IN
        /\ \A i \in 1..(Len(d) - 1) : d[i + 1] = d[i] + 1
        /\ (c \in Clients /\ d # <<>>) => Last(d) = nPub

\* C5: a published chunk is written as one Data frame to every peer of the
\* peer set whose connection takes the write (a peer whose write fails gets
\* nothing and leaves the set in that publish) and to nobody else; each peer's
\* Data frames are consecutive chunks in PTY order, up to the latest chunk
\* while it is in the set.
C5_Broadcast ==
    [][ /\ nPub' # nPub =>
             \A c \in Conns :
                IF c \in Clients /\ WriteOK(c)
                   THEN inbox'[c] = Append(inbox[c], nPub') /\ c \in Clients'
                   ELSE inbox'[c] = inbox[c] /\ c \notin Clients'
        /\ C5_InOrder' ]_vars

\* A master and an observer have both received chunks 1 and 2.
C5_Witness ==
    \E c, d \in Conns :
        /\ IsMasterRole(c) /\ role[d] = ModeReadOnly
        /\ DataOf(inbox[c]) = <<1, 2>> /\ DataOf(inbox[d]) = <<1, 2>>

\* The first frame is not a Mode frame with a payload of at least one byte:
\* the stream ended, the frame is oversize or cut short, of another type, or
\* empty.
C6_NotMode(f) ==
    \/ "eof" \in DOMAIN f
    \/ f.len > 65536
    \/ f.len # Len(f.p)
    \/ f.t # TypeMode
    \/ Len(f.p) < 1

Rejected(c) == pc[c] = "done" /\ role[c] = NoRole

C6_Inert ==
    \A c \in Conns :
        Rejected(c) => /\ srvClosed[c] /\ c \notin Clients /\ Master # c
                       /\ kicks[c] = 0 /\ inbox[c] = <<>> /\ NoTraceOf(c)

\* C6: a connection whose first frame is not a Mode frame with a payload is
\* closed in that step, which changes neither the peer set, the master slot,
\* any inbox (no Kick) nor the PTY; the connection stays rejected and never
\* enters the peer set or the slot afterwards.
C6_RejectFirst ==
    [][ /\ \A c \in Conns : \A f \in FirstFrames(c) :
             (Accept(c, f) /\ C6_NotMode(f))
                => /\ srvClosed'[c] /\ pc'[c] = "done"
                   /\ UNCHANGED <<Master, Clients, kicks, inbox, ptyIn, winsize,
                                  sigLog, symlink, shell>>
        /\ \A c \in Conns : Rejected(c) => Rejected(c)'
        /\ C6_Inert' ]_vars

\* A liveness probe (closed before any frame) and a connection that sent Data
\* first were both rejected.
C6_Witness ==
    /\ \E c \in Conns : Rejected(c) /\ cliClosed[c]
    /\ \E c \in Conns : Rejected(c) /\ ~cliClosed[c]

\* ===================================================================
\* The attach front-end (internal/client): SessionClient, processInput,
\* DrainInput, Stream, Attach.
\* ===================================================================
\* The SessionClient fields processInput reads and writes, with the state of
\* the connection during the call: failAt = j > 0 when the daemon's end
\* closes just before byte j of the call is processed, 0 when it does not.
ClientState(failAt) ==
    [pendingPrefix |-> pendingPrefix, detached |-> detached,
     connOpen |-> connOpen, peerUp |-> peerUp, failAt |-> failAt,
     out |-> <<>>, ret |-> "nil", used |-> 0]

\* protocol.WritePacket on c.Conn succeeds while both ends are open.
ConnWritable(st, i) ==
    st.connOpen /\ st.peerUp /\ (st.failAt = 0 \/ i < st.failAt)

\* A write that reports success and puts nothing on the connection.
EmitDataLost(st, p, i) ==
    IF ConnWritable(st, i)
       THEN [st EXCEPT !.used = i]
       ELSE [st EXCEPT !.ret = "err", !.used = i]

\* One WritePacket(c.Conn, TypeData, p) of processInput at byte i: on an
\* error the call returns it at once.
EmitData(st, p, i) ==
    IF ConnWritable(st, i)
       THEN [st EXCEPT !.out = Append(@, Frame(TypeData, p)), !.used = i]
       ELSE [st EXCEPT !.ret = "err", !.used = i]

\* A loop body that sends the prefix and the byte after it in two frames.
processByteSplitFrames(st, b, i) ==
    IF st.pendingPrefix
       THEN LET s1 == [st EXCEPT !.pendingPrefix = FALSE, !.used = i] IN
            IF b = CharD
               THEN [s1 EXCEPT !.detached = 1, !.connOpen = FALSE,
                               !.ret = "EOF"]
            ELSE IF ReadOnly THEN s1
            ELSE IF b = DetachKey THEN EmitData(s1, <<DetachKey>>, i)
            ELSE EmitData(EmitData(s1, <<DetachKey>>, i), <<b>>, i)
       ELSE IF b = DetachKey
               THEN [st EXCEPT !.pendingPrefix = TRUE, !.used = i]
            ELSE IF ReadOnly THEN [st EXCEPT !.used = i]
            ELSE EmitData(st, <<b>>, i)

\* A loop body that goes on after the detach sequence.
processByteNoStop(st, b, i) ==
    IF st.pendingPrefix
       THEN [st EXCEPT !.pendingPrefix = FALSE, !.used = i,
                       !.detached = IF b = CharD THEN 1 ELSE @,
                       !.connOpen = IF b = CharD THEN FALSE ELSE @]
       ELSE IF b = DetachKey
               THEN [st EXCEPT !.pendingPrefix = TRUE, !.used = i]
            ELSE IF ReadOnly THEN [st EXCEPT !.used = i]
            ELSE EmitData(st, <<b>>, i)

\* The body of the loop of processInput for byte b = data[i]; ret stays
\* "nil" when the loop goes on.
processByte(st, b, i) ==
    IF st.pendingPrefix
       THEN LET s1 == [st EXCEPT !.pendingPrefix = FALSE, !.used = i] IN
            IF b = CharD
               THEN [s1 EXCEPT !.detached = 1, !.connOpen = FALSE,
                               !.ret = "EOF"]
            ELSE IF b = DetachKey
               THEN IF ReadOnly THEN s1 ELSE EmitData(s1, <<DetachKey>>, i)
            ELSE IF ReadOnly THEN s1 ELSE EmitData(s1, <<DetachKey, b>>, i)
       ELSE IF b = DetachKey
               THEN [st EXCEPT !.pendingPrefix = TRUE, !.used = i]
            ELSE IF ReadOnly THEN [st EXCEPT !.used = i]
            ELSE EmitData(st, <<b>>, i)

\* The loop of processInput from byte i on: it stops at the end of data or at
\* the first return.  (The state after each byte is bound as a value, so
\* that it is computed once.)
RECURSIVE processFrom(_, _, _)
processFrom(st, data, i) ==
    IF i > Len(data) \/ st.ret # "nil"
       THEN st
       ELSE CHOOSE r \in {processFrom(s, data, i + 1) :
                             s \in {processByte(st, data[i], i)}} : TRUE

\* c.processInput(data) run from client state st: the state it leaves, the
\* frames it wrote (out), what it returned (ret) and the index of the last
\* byte it looked at (used).
processInput(st, data) == processFrom(st, data, 1)

\* The bytes the model types: the detach keys, 'd' and an ordinary byte.
InputBytes == DetachKeys \cup {CharD, CharX}

\* The bytes handed to processInput by the calls of h.
RECURSIVE TotalLen(_)
TotalLen(h) == IF h = <<>> THEN 0 ELSE Len(h[1].data) + TotalLen(Tail(h))

\* The fields a processInput call leaves in the SessionClient and on c.Conn.
StoreClient(r) ==
    /\ pendingPrefix' = r.pendingPrefix
    /\ detached' = r.detached
    /\ connOpen' = r.connOpen
    /\ peerUp' = (r.peerUp /\ r.failAt = 0)
    /\ sent' = sent \o r.out

\* A caller hands the next stdin bytes to c.processInput.
ProcessInputCall(data, failAt) ==
    /\ TotalLen(hist) + Len(data) <= MaxInput
    /\ failAt <= Len(data)
    /\ failAt > 0 => peerUp
    /\ \E r \in {processInput(ClientState(failAt), data)} :
        /\ StoreClient(r)
        /\ hist' = Append(hist, [st0 |-> ClientState(failAt), data |-> data,
                                 r |-> r])
    /\ UNCHANGED <<DetachKey, ReadOnly>>
    /\ UNCHANGED drainVars
    /\ UNCHANGED attachVars
    /\ UNCHANGED offFrontEnd

\* The daemon closes its end of the connection between two calls.
PeerClose ==
    /\ peerUp
    /\ peerUp' = FALSE
    /\ UNCHANGED <<DetachKey, ReadOnly, pendingPrefix, detached, connOpen,
                   sent, hist>>
    /\ UNCHANGED drainVars
    /\ UNCHANGED attachVars
    /\ UNCHANGED offFrontEnd

InitClient ==
    /\ DetachKey \in DetachKeys
    /\ ReadOnly \in BOOLEAN
    /\ pendingPrefix = FALSE
    /\ detached = 0
    /\ connOpen = TRUE
    /\ peerUp = TRUE
    /\ sent = <<>>
    /\ hist = <<>>

\* ------------------------------------------------ matchTerminalResponse
DrainCap == 4096     \* safety limit of the drain buffer

\* The introducers of DCS, APC, PM and title sequences: 'P', '_', '^', 'k'.
StringIntro == {CharDCS, 95, 94, 107}

\* bytes.Index(data, "\x1b"): the 0-based index of the first ESC, or -1.
IndexESC(data) ==
    IF \E i \in 1..Len(data) : data[i] = ESC
       THEN (CHOOSE i \in 1..Len(data) :
                /\ data[i] = ESC
                /\ \A j \in 1..(i - 1) : data[j] # ESC) - 1
       ELSE -1

\* The least index of hits, or 0 when there is none: the value the scanning
\* loops of matchTerminalResponse return (remaining[i] of the source is
\* remaining[i + 1] here, and the source returns i + 1).
FirstHit(hits) ==
    IF hits = {} THEN 0 ELSE CHOOSE i \in hits : \A j \in hits : i <= j

\* A matcher that takes every ESC for the start of a two-byte sequence.
matchTwoBytesOnly(data) ==
    LET escIdx == IndexESC(data) IN
    IF escIdx < 0 \/ Len(data) - escIdx < 2 THEN 0 ELSE 2

\* matchTerminalResponse(data): the length of the response sequence at the
\* first ESC of data, 0 when there is none or it is incomplete.
matchTerminalResponse(data) ==
    LET escIdx == IndexESC(data) IN
    IF escIdx < 0 THEN 0
    ELSE LET remaining == SubSeq(data, escIdx + 1, Len(data))
             scan == 3..Len(remaining) IN
         IF Len(remaining) < 2 THEN 0
         ELSE IF remaining[2] = CharCSI
            THEN FirstHit({i \in scan : /\ remaining[i] >= FinalLo
                                        /\ remaining[i] <= FinalHi})
         ELSE IF remaining[2] = CharOSC
            THEN FirstHit({i \in scan :
                             \/ remaining[i] = BEL
                             \/ remaining[i] = CharST /\ remaining[i - 1] = ESC})
         ELSE IF remaining[2] \in StringIntro
            THEN FirstHit({i \in scan :
                             remaining[i] = CharST /\ remaining[i - 1] = ESC})
         ELSE 2

\* ------------------------------------------------------------ DrainInput
\* The bytes the terminal and the user send during the drain window.
DrainBytes == {ESC, CharCSI, CharOSC, CharST, BEL, CharOne, CharD, CharDCS,
               CtrlD}

\* The position in stdinLog of the byte before drainBuf[1].
BufBase == Len(stdinLog) - Len(drainBuf)

Positions(from, n) == [i \in 1..n |-> from + i]

\* c.processInput(data) called by DrainInput or by the pump, with the
\* connection as it is at the call; data starts at stdinLog[from + 1].
HandToProcessor(data, from, r) ==
    /\ StoreClient(r)
    /\ UNCHANGED hist
    /\ fed' = fed \o Positions(from, Len(data))

BufPositions(lo, hi) == {BufBase + i : i \in lo..hi}

\* The stdin reader read a chunk and the select of the drain loop took it.
DrainChunk(chunk) ==
    /\ apc = "drain"
    /\ dpc = "select"
    /\ stdinOpen
    /\ stdinLog' = stdinLog \o chunk
    /\ nReads' = nReads + 1
    /\ drainBuf' = drainBuf \o chunk
    /\ dpc' = "match"
    /\ UNCHANGED <<inputVars, stdinOpen, fed, dropped>>
    /\ UNCHANGED attachVars
    /\ UNCHANGED offFrontEnd

\* One pass of the match loop.  A response at the first ESC: the bytes before
\* it go to processInput (an error makes DrainInput return) and the span is
\* cut out.  No response: the loop ends, a buffer without ESC is forwarded,
\* a buffer over the safety limit is flushed and ends the drain loop.
DrainMatchCap(cap) ==
    /\ apc = "drain"
    /\ dpc = "match"
    /\ LET seqLen == matchTerminalResponse(drainBuf)
           escIdx == IndexESC(drainBuf) IN
       IF seqLen > 0
          THEN \E r \in {processInput(ClientState(0), SubSeq(drainBuf, 1, escIdx))} :
               /\ IF escIdx > 0
                     THEN HandToProcessor(SubSeq(drainBuf, 1, escIdx), BufBase, r)
                     ELSE UNCHANGED <<pendingPrefix, detached, connOpen, peerUp,
                                      sent, hist, fed>>
               /\ IF r.ret # "nil"
                     THEN /\ dpc' = "stream"
                          /\ drainBuf' = <<>>
                          /\ dropped' = dropped \cup
                                 BufPositions(escIdx + 1, Len(drainBuf))
                     ELSE /\ dpc' = "match"
                          /\ drainBuf' = SubSeq(drainBuf, escIdx + seqLen + 1,
                                                Len(drainBuf))
                          /\ dropped' = dropped \cup
                                 BufPositions(escIdx + 1, escIdx + seqLen)
          ELSE IF Len(drainBuf) > 0 /\ (escIdx < 0 \/ Len(drainBuf) > cap)
             THEN \E r \in {processInput(ClientState(0), drainBuf)} :
                  /\ HandToProcessor(drainBuf, BufBase, r)
                  /\ drainBuf' = <<>>
                  /\ dpc' = IF r.ret # "nil" \/ escIdx >= 0 THEN "stream"
                                                             ELSE "select"
                  /\ UNCHANGED dropped
             ELSE /\ dpc' = "select"
                  /\ UNCHANGED <<pendingPrefix, detached, connOpen, peerUp,
                                 sent, hist, fed, drainBuf, dropped>>
    /\ apc' = IF dpc' = "stream" THEN "streamStart" ELSE apc
    /\ UNCHANGED <<DetachKey, ReadOnly, stdinOpen, stdinLog, nReads>>
    /\ UNCHANGED <<termios, stdout, result, rx, nRecv, nWinch>>
    /\ UNCHANGED offFrontEnd

DrainMatch == DrainMatchCap(DrainCap)

\* A drain loop that ends on its timers without the final flush.
DrainTimeoutNoFlush ==
    /\ apc = "drain"
    /\ dpc = "select"
    /\ drainBuf' = <<>>
    /\ dpc' = "stream"
    /\ apc' = "streamStart"
    /\ UNCHANGED <<inputVars, stdinOpen, stdinLog, nReads, fed, dropped>>
    /\ UNCHANGED <<termios, stdout, result, rx, nRecv, nWinch>>
    /\ UNCHANGED offFrontEnd

\* The inactivity timer or the deadline fires: the drain loop ends and what
\* is left in the buffer is flushed as user input; DrainInput returns.
DrainTimeout ==
    /\ apc = "drain"
    /\ dpc = "select"
    /\ IF Len(drainBuf) > 0
          THEN \E r \in {processInput(ClientState(0), drainBuf)} :
               HandToProcessor(drainBuf, BufBase, r)
          ELSE UNCHANGED <<pendingPrefix, detached, connOpen, peerUp, sent,
                           hist, fed>>
    /\ drainBuf' = <<>>
    /\ dpc' = "stream"
    /\ apc' = "streamStart"
    /\ UNCHANGED <<DetachKey, ReadOnly, stdinOpen, stdinLog, nReads, dropped>>
    /\ UNCHANGED <<termios, stdout, result, rx, nRecv, nWinch>>
    /\ UNCHANGED offFrontEnd

\* Stdin fails or ends: the reader closes stdinCh.  The drain loop returns
\* at once, leaving its buffer behind; the pump's range loop ends (at once,
\* if Stream has yet to start it).
StdinEOF ==
    /\ \/ apc = "drain" /\ dpc = "select"
       \/ apc = "reading" /\ dpc = "stream"
    /\ stdinOpen
    /\ stdinOpen' = FALSE
    /\ dpc' = "pumpDone"
    /\ drainBuf' = <<>>
    /\ dropped' = dropped \cup BufPositions(1, Len(drainBuf))
    /\ apc' = IF apc = "drain" THEN "streamStart" ELSE apc
    /\ UNCHANGED <<inputVars, stdinLog, nReads, fed>>
    /\ UNCHANGED <<termios, stdout, result, rx, nRecv, nWinch>>
    /\ UNCHANGED offFrontEnd

\* Steady state: the pump of Stream takes the next chunk to processInput and
\* ends on its first error.
PumpChunk(chunk) ==
    /\ apc = "reading"
    /\ dpc = "stream"
    /\ stdinOpen
    /\ stdinLog' = stdinLog \o chunk
    /\ nReads' = nReads + 1
    /\ \E r \in {processInput(ClientState(0), chunk)} :
          /\ HandToProcessor(chunk, Len(stdinLog), r)
          /\ dpc' = IF r.ret # "nil" THEN "pumpDone" ELSE "stream"
    /\ UNCHANGED <<DetachKey, ReadOnly, stdinOpen, drainBuf, dropped>>
    /\ UNCHANGED attachVars
    /\ UNCHANGED offFrontEnd

InitDrainInput ==
    /\ dpc = "select"
    /\ drainBuf = <<>>
    /\ stdinOpen = TRUE
    /\ stdinLog = <<>>
    /\ nReads = 0
    /\ fed = <<>>
    /\ dropped = {}

\* ------------------------------------------------------- Attach, Stream
\* The size term.GetSize reports for the terminal: rows, columns.
TermSize == <<24, 80>>

\* protocol.WritePacket(c.Conn, t, p) outside processInput: the frame goes
\* on the connection if both ends are open, the error is dropped otherwise.
WriteIfOpen(s, t, p) ==
    IF connOpen /\ peerUp THEN Append(s, Frame(t, p)) ELSE s

\* A restoreTerminal that writes nothing.
restoreTerminalSkipped(out) == out

\* restoreTerminal(): the escape sequence that resets the terminal modes.
restoreTerminal(out) == Append(out, <<"restore">>)

\* The deferred calls of Attach: term.Restore of the saved state, then
\* Conn.Close.
AttachReturn(res) ==
    /\ result' = res
    /\ termios' = "cooked"
    /\ connOpen' = FALSE
    /\ apc' = "returned"

\* client.Connect: net.Dial succeeds (ok) or fails.
Connect(ok) ==
    /\ apc = "connect"
    /\ IF ok THEN apc' = "handshake" /\ UNCHANGED <<result, connOpen>>
             ELSE apc' = "returned" /\ result' = "err" /\ connOpen' = FALSE
    /\ UNCHANGED <<DetachKey, ReadOnly, pendingPrefix, detached, peerUp, sent,
                   hist, termios, stdout, rx, nRecv, nWinch>>
    /\ UNCHANGED drainVars
    /\ UNCHANGED offFrontEnd

\* client.Handshake: the Mode frame, then the Env frame when SSH_AUTH_SOCK is
\* set (ssh); a failed Mode write makes Attach return the error.
Handshake(ssh) ==
    /\ apc = "handshake"
    /\ IF peerUp
          THEN /\ sent' = LET m == Append(sent, Frame(TypeMode,
                                   <<IF ReadOnly THEN ModeReadOnly
                                                 ELSE ModeMaster>>))
                          IN IF ssh THEN Append(m, Frame(TypeEnv, <<EnvSSH>>))
                                    ELSE m
               /\ apc' = "makeraw"
               /\ UNCHANGED <<result, connOpen>>
          ELSE /\ apc' = "returned"
               /\ result' = "err"
               /\ connOpen' = FALSE
               /\ UNCHANGED sent
    /\ UNCHANGED <<DetachKey, ReadOnly, pendingPrefix, detached, peerUp, hist,
                   termios, stdout, rx, nRecv, nWinch>>
    /\ UNCHANGED drainVars
    /\ UNCHANGED offFrontEnd

\* term.MakeRaw succeeds (ok) and Attach defers term.Restore, or fails and
\* Attach returns the error.
MakeRaw(ok) ==
    /\ apc = "makeraw"
    /\ IF ok THEN /\ termios' = "raw"
                  /\ apc' = "replay"
                  /\ UNCHANGED <<result, connOpen>>
             ELSE /\ apc' = "returned"
                  /\ result' = "err"
                  /\ connOpen' = FALSE
                  /\ UNCHANGED termios
    /\ UNCHANGED <<DetachKey, ReadOnly, pendingPrefix, detached, peerUp, sent,
                   hist, stdout, rx, nRecv, nWinch>>
    /\ UNCHANGED drainVars
    /\ UNCHANGED offFrontEnd

\* The log replay, if asked for, then the start of DrainInput: the DSR
\* request goes to stdout and the stdin reader starts.
Replay(replay) ==
    /\ apc = "replay"
    /\ stdout' = (IF replay THEN Append(stdout, <<"log">>) ELSE stdout)
                     \o << <<"dsr">> >>
    /\ apc' = "drain"
    /\ UNCHANGED <<termios, result, rx, nRecv, nWinch>>
    /\ UNCHANGED inputVars
    /\ UNCHANGED drainVars
    /\ UNCHANGED offFrontEnd

\* A Stream that sends Resize frames in observer mode too.
sendsResizeAlways == TRUE

\* The test `!c.ReadOnly` that guards the initial Resize and the installation
\* of the SIGWINCH handler.
sendsResize == ~ReadOnly

\* Stream up to its read loop: the initial Resize of a master, the SIGWINCH
\* handler, the pump.
StreamStart ==
    /\ apc = "streamStart"
    /\ sent' = IF ~sendsResize THEN sent
               ELSE WriteIfOpen(sent, TypeResize,
                                ResizePayload(TermSize[1], TermSize[2]))
    /\ apc' = "reading"
    /\ UNCHANGED <<DetachKey, ReadOnly, pendingPrefix, detached, connOpen,
                   peerUp, hist, termios, stdout, result, rx, nRecv, nWinch>>
    /\ UNCHANGED drainVars
    /\ UNCHANGED offFrontEnd

\* SIGWINCH: the handler a master installed sends a Resize; an observer
\* installed none and the signal is ignored.
Winch ==
    /\ apc = "reading"
    /\ nWinch < MaxWinch
    /\ nWinch' = nWinch + 1
    /\ sent' = IF sendsResize
                  THEN WriteIfOpen(sent, TypeResize,
                                   ResizePayload(TermSize[1], TermSize[2]))
                  ELSE sent
    /\ UNCHANGED <<DetachKey, ReadOnly, pendingPrefix, detached, connOpen,
                   peerUp, hist, apc, termios, stdout, result, rx, nRecv>>
    /\ UNCHANGED drainVars
    /\ UNCHANGED offFrontEnd

\* One pass of the read loop of Stream.  ReadPacket fails on a connection the
\* front-end closed, and at the end of a stream the daemon closed.
StreamRecv ==
    /\ apc = "reading"
    /\ IF ~connOpen \/ (rx = <<>> /\ ~peerUp)
          THEN /\ IF detached = 1
                     THEN /\ stdout' = restoreTerminal(stdout)
                          /\ AttachReturn("ErrDetached")
                     ELSE /\ UNCHANGED stdout
                          /\ AttachReturn("nil")
               /\ UNCHANGED rx
          ELSE /\ rx # <<>>
               /\ rx' = Tail(rx)
               /\ IF Head(rx) = <<"Kick">>
                     THEN /\ stdout' = restoreTerminal(stdout)
                          /\ AttachReturn("ErrKicked")
                     ELSE /\ stdout' = Append(stdout, <<"data", Head(rx)[2]>>)
                          /\ UNCHANGED <<apc, termios, result, connOpen>>
    /\ UNCHANGED <<DetachKey, ReadOnly, pendingPrefix, detached, peerUp, sent,
                   hist, nRecv, nWinch>>
    /\ UNCHANGED drainVars
    /\ UNCHANGED offFrontEnd

\* The daemon broadcasts a chunk to this connection.
DaemonData ==
    /\ apc \notin {"connect", "handshake", "returned"}
    /\ peerUp /\ connOpen
    /\ nRecv < MaxRecv
    /\ nRecv' = nRecv + 1
    /\ rx' = Append(rx, <<"Data", nRecv + 1>>)
    /\ UNCHANGED <<apc, termios, stdout, result, nWinch>>
    /\ UNCHANGED inputVars
    /\ UNCHANGED drainVars
    /\ UNCHANGED offFrontEnd

\* The daemon installs a new master: Kick, then Close.
DaemonKick ==
    /\ apc \notin {"connect", "handshake", "returned"}
    /\ ~ReadOnly
    /\ peerUp
    /\ rx' = IF connOpen THEN Append(rx, <<"Kick">>) ELSE rx
    /\ peerUp' = FALSE
    /\ UNCHANGED <<DetachKey, ReadOnly, pendingPrefix, detached, connOpen,
                   sent, hist, apc, termios, stdout, result, nRecv, nWinch>>
    /\ UNCHANGED drainVars
    /\ UNCHANGED offFrontEnd

InitAttachVars ==
    /\ apc = "connect"
    /\ termios = "cooked"
    /\ stdout = <<>>
    /\ result = "none"
    /\ rx = <<>>
    /\ nRecv = 0
    /\ nWinch = 0

\* DrainInput has just been entered.
InitDraining ==
    /\ apc = "drain"
    /\ termios = "raw"
    /\ stdout = << <<"dsr">> >>
    /\ result = "none"
    /\ rx = <<>>
    /\ nRecv = 0
    /\ nWinch = 0

\* ----------------------------------------------- processInput on its own
NextInput ==
    \/ \E n \in 1..(MaxInput - TotalLen(hist)) :
          \E data \in [1..n -> InputBytes] :
             \E failAt \in 0..n : ProcessInputCall(data, failAt)
    \/ PeerClose

InitInput ==
    /\ InitDaemon /\ InitClient /\ InitDrainInput /\ InitDraining
    /\ OthersIdle("client")

SpecInput == InitInput /\ [][NextInput]_vars

\* ------------------------------------- DrainInput and the pump of Stream
NextDrain ==
    \/ \E n \in 1..(MaxStdin - Len(stdinLog)) :
          \E chunk \in [1..n -> DrainBytes] : DrainChunk(chunk)
    \/ DrainMatch
    \/ DrainTimeout
    \/ StdinEOF
    \/ StreamStart
    \/ \E n \in 1..(MaxStdin - Len(stdinLog)) :
          \E chunk \in [1..n -> DrainBytes] : PumpChunk(chunk)
    \/ PeerClose

InitDrain ==
    /\ InitDaemon /\ InitClient /\ DetachKey = CtrlD /\ InitDrainInput
    /\ InitDraining /\ OthersIdle("client")

SpecDrain == InitDrain /\ [][NextDrain]_vars

\* The drain loop with its safety limit scaled to the stdin bytes of the
\* model, so that a buffer outgrows it.
ScaledCap == 2

NextHandover ==
    \/ \E n \in 1..(MaxStdin - Len(stdinLog)) :
          \E chunk \in [1..n -> DrainBytes] : DrainChunk(chunk)
    \/ DrainMatchCap(ScaledCap)
    \/ DrainTimeout
    \/ StdinEOF
    \/ StreamStart
    \/ \E n \in 1..(MaxStdin - Len(stdinLog)) :
          \E chunk \in [1..n -> DrainBytes] : PumpChunk(chunk)
    \/ PeerClose

SpecHandover == InitDrain /\ [][NextHandover]_vars

\* ------------------------------------------------------ Attach as a whole
\* The bytes the user types in the runs of Attach.
AttachBytes == {CtrlD, CharD, ESC}

NextAttach ==
    \/ \E ok \in BOOLEAN : Connect(ok)
    \/ \E ssh \in BOOLEAN : Handshake(ssh)
    \/ \E ok \in BOOLEAN : MakeRaw(ok)
    \/ \E replay \in BOOLEAN : Replay(replay)
    \/ \E n \in 1..(MaxKeys - Len(stdinLog)) :
          \E chunk \in [1..n -> AttachBytes] : DrainChunk(chunk)
    \/ DrainMatch
    \/ DrainTimeout
    \/ StdinEOF
    \/ StreamStart
    \/ \E n \in 1..(MaxKeys - Len(stdinLog)) :
          \E chunk \in [1..n -> AttachBytes] : PumpChunk(chunk)
    \/ Winch
    \/ StreamRecv
    \/ DaemonData
    \/ DaemonKick
    \/ PeerClose

InitAttach ==
    /\ InitDaemon /\ InitClient /\ DetachKey = CtrlD /\ InitDrainInput
    /\ InitAttachVars /\ OthersIdle("client")

SpecAttach == InitAttach /\ [][NextAttach]_vars

\* -------------------------------------------------------------------- C7
\* Attach has returned from Stream, that is after term.MakeRaw succeeded.
ReturnedAfterRaw == apc = "returned" /\ result # "err"

Wrote(tok) == \E i \in 1..Len(stdout) : stdout[i] = tok

IsCSI(s) ==
    /\ Len(s) >= 3 /\ s[1] = ESC /\ s[2] = CharCSI
    /\ s[Len(s)] >= 64 /\ s[Len(s)] <= 126
    /\ \A i \in 3..(Len(s) - 1) : s[i] >= 32 /\ s[i] <= 63

IsST(s, i) == i >= 4 /\ s[i] = CharST /\ s[i - 1] = ESC

IsOSC(s) ==
    /\ Len(s) >= 3 /\ s[1] = ESC /\ s[2] = CharOSC
    /\ s[Len(s)] = BEL \/ IsST(s, Len(s))
    /\ \A i \in 3..(Len(s) - 1) : s[i] # BEL /\ ~IsST(s, i)

IsString(s) ==
    /\ Len(s) >= 4 /\ s[1] = ESC /\ s[2] \in {80, 95, 94, 107}
    /\ IsST(s, Len(s))
    /\ \A i \in 3..(Len(s) - 1) : ~IsST(s, i)

IsTwoByte(s) ==
    /\ Len(s) = 2 /\ s[1] = ESC
    /\ s[2] \notin {CharCSI, CharOSC, 80, 95, 94, 107}

IsResponse(s) == IsCSI(s) \/ IsOSC(s) \/ IsString(s) \/ IsTwoByte(s)

\* The lengths n such that the n bytes of buf from its first ESC, at index e,
\* are a complete response (e = 0: buf has no ESC).
ResponseAt(buf, e) ==
    IF e < 1 THEN {}
    ELSE {n \in 1..(Len(buf) - e + 1) : IsResponse(SubSeq(buf, e, e + n - 1))}

IsPrefix(s, t) == Len(s) <= Len(t) /\ s = SubSeq(t, 1, Len(s))

\* What an input processor that starts fresh on a healthy connection writes
\* for the bytes handed to processInput so far.
C8_FramesOfFed ==
    processInput([pendingPrefix |-> FALSE, detached |-> 0, connOpen |-> TRUE,
                  peerUp |-> TRUE, failAt |-> 0, out |-> <<>>, ret |-> "nil",
                  used |-> 0],
                 [i \in 1..Len(fed) |-> stdinLog[fed[i]]]).out

IsDataFrame(f) == f.t = TypeData

\* No dropped byte was handed to processInput, and the Data frames sent are
\* frames of the bytes that were handed to it.
C8_NoTrace ==
    /\ \A i \in 1..Len(fed) : fed[i] \notin dropped
    /\ IsPrefix(SelectSeq(sent, IsDataFrame), C8_FramesOfFed)

\* C8: a pass of the match loop that finds a complete terminal response at the
\* first ESC of the drain buffer -- whatever chunks brought its bytes -- hands
\* exactly the bytes before that ESC to processInput and drops the response:
\* its bytes leave the buffer without reaching processInput, so none of them
\* is in a Data frame sent to the daemon, then or later.
C8_DropResponses ==
    [][ /\ (dpc = "match" /\ peerUp' = peerUp) =>
             LET e == IndexESC(drainBuf) + 1 IN
             \A n \in ResponseAt(drainBuf, e) :
                /\ BufPositions(e, e + n - 1) \subseteq dropped'
                /\ fed' = fed \o Positions(BufBase, e - 1)
                /\ dpc' \in {"match", "stream"}
                /\ dpc' = "match" =>
                      drainBuf' = SubSeq(drainBuf, e + n, Len(drainBuf))
        /\ C8_NoTrace' ]_vars

\* A master front-end read 'd', ESC, '[', 'd' in three chunks, so that the
\* response ESC [ d came split: it sent 'd' and dropped the response.
C8_Witness ==
    /\ ~ReadOnly
    /\ stdinLog = <<CharD, ESC, CharCSI, CharD>>
    /\ nReads = 3
    /\ dropped = {2, 3, 4}
    /\ SelectSeq(sent, IsDataFrame) = <<Frame(TypeData, <<CharD>>)>>
    /\ drainBuf = <<>>

\* ---------------------------------------------------------------- C9, C10
\* The state processInput is in when it reaches byte i of call h, if it
\* reaches it (ret = "nil").
StateAt(h, i) == processInput(h.st0, SubSeq(h.data, 1, i - 1))

\* Call h stopped at byte j with the detach outcome, having written the
\* frames o and nothing else, and the client is detached with c.Conn closed.
C9_Stopped(h, j, o) ==
    /\ h.r.ret = "EOF" /\ h.r.used = j /\ h.r.out = o
    /\ h.r.detached = 1 /\ ~h.r.connOpen
    /\ detached = 1 /\ ~connOpen

\* C9: when processInput meets the detach key with pending_prefix false and
\* the next byte is 'd' -- in the same chunk, or as the first byte of the
\* next call -- it sets the detached flag, closes c.Conn, returns the stop
\* signal, writes no Data frame for the two bytes and looks at no byte after
\* 'd'; in master and in read-only mode, for every detach key.
C9_DetachSequence ==
    \A k \in 1..Len(hist) :
        LET h == hist[k] IN
        /\ \A i \in 1..(Len(h.data) - 1) :
              LET s == StateAt(h, i) IN
              (s.ret = "nil" /\ ~s.pendingPrefix
                 /\ h.data[i] = DetachKey /\ h.data[i + 1] = CharD)
              => C9_Stopped(h, i + 1, s.out)
        /\ k > 1 =>
              LET g == hist[k - 1]
                  s == StateAt(g, Len(g.data)) IN
              (s.ret = "nil" /\ ~s.pendingPrefix
                 /\ g.data[Len(g.data)] = DetachKey /\ h.data[1] = CharD)
              => /\ g.r.ret = "nil" /\ g.r.out = s.out /\ g.r.pendingPrefix
                 /\ C9_Stopped(h, 1, <<>>)

\* A read-only front-end with a custom detach key got the key at the end of
\* one call and 'd' followed by another byte in the next.
C9_Witness ==
    /\ ReadOnly /\ DetachKey = CtrlA
    /\ Len(hist) = 2
    /\ hist[1].data = <<CharX, CtrlA>>
    /\ hist[2].data = <<CharD, CharX>>
    /\ detached = 1

\* C10: a call of a master front-end that starts with pending_prefix false, on
\* bytes none of which is the detach key, with the connection taking every
\* write, writes one Data frame per byte, the i-th carrying the i-th byte
\* alone, returns nil and leaves pending_prefix false.
C10_OneFramePerByte ==
    \A k \in 1..Len(hist) :
        LET h == hist[k] IN
        (/\ ~ReadOnly /\ ~h.st0.pendingPrefix
         /\ \A i \in 1..Len(h.data) : h.data[i] # DetachKey
         /\ h.st0.connOpen /\ h.st0.peerUp /\ h.st0.failAt = 0)
        => /\ h.r.ret = "nil"
           /\ h.r.out = [i \in 1..Len(h.data) |-> Frame(TypeData, <<h.data[i]>>)]
           /\ ~h.r.pendingPrefix

\* A master front-end sent 'd', the byte of another detach key and 'x' in one
\* call, each in its own frame.
C10_Witness ==
    /\ ~ReadOnly /\ DetachKey = CtrlD
    /\ Len(hist) = 1
    /\ hist[1].data = <<CharD, CtrlA, CharX>>
    /\ Len(sent) = 3

\* -------------------------------------------------------------------- C11
\* The state call h is in once it has processed byte i.
StateAfter(h, i) == IF i = Len(h.data) THEN h.r ELSE StateAt(h, i + 1)

\* C11: in a master front-end whose connection takes the write, a byte b
\* other than 'd' met with pending_prefix true is answered by exactly one
\* Data frame -- [detach_key] when b is the detach key, [detach_key, b]
\* otherwise -- and clears pending_prefix; the detach key met with
\* pending_prefix false writes nothing and sets pending_prefix.
C11_PrefixPassthrough ==
    \A k \in 1..Len(hist) :
        LET h == hist[k] IN
        \A i \in 1..Len(h.data) :
            LET s == StateAt(h, i)
                t == StateAfter(h, i)
                b == h.data[i] IN
            /\ (/\ s.ret = "nil" /\ s.pendingPrefix /\ b # CharD
                /\ ~ReadOnly /\ ConnWritable(s, i))
               => /\ t.out = Append(s.out,
                                Frame(TypeData, IF b = DetachKey
                                                   THEN <<DetachKey>>
                                                   ELSE <<DetachKey, b>>))
                  /\ ~t.pendingPrefix
                  /\ t.ret = "nil"
            /\ (s.ret = "nil" /\ ~s.pendingPrefix /\ b = DetachKey)
               => /\ t.out = s.out
                  /\ t.pendingPrefix
                  /\ t.ret = "nil"

\* A master front-end whose detach key is ESC got ESC ESC ESC 'x' in one call
\* and sent [ESC], then [ESC, 'x'].
C11_Witness ==
    /\ ~ReadOnly /\ DetachKey = ESC
    /\ Len(hist) = 1
    /\ hist[1].data = <<ESC, ESC, ESC, CharX>>
    /\ sent = <<Frame(TypeData, <<ESC>>), Frame(TypeData, <<ESC, CharX>>)>>

\* -------------------------------------------------------------------- C12
IsResizeFrame(f) == f.t = TypeResize

\* The bytes a step hands to processInput, in order.
NewlyFed == [i \in 1..(Len(fed') - Len(fed)) |-> stdinLog'[fed'[Len(fed) + i]]]

\* C12: an observer front-end never has a Data or a Resize frame among the
\* frames it sent, through the drain phase, the steady state and every
\* window-change signal; and its processInput still follows the prefix: the
\* detach key met outside a prefix sets pending_prefix, and 'd' met inside a
\* prefix detaches.
C12_ObserverSilent ==
    [][ReadOnly =>
         /\ SelectSeq(sent', IsDataFrame) = <<>>
         /\ SelectSeq(sent', IsResizeFrame) = <<>>
         /\ (/\ NewlyFed # <<>> /\ detached = 0 /\ pendingPrefix
             /\ NewlyFed[1] = CharD) => detached' = 1
         /\ (/\ Len(NewlyFed) >= 2 /\ detached = 0 /\ ~pendingPrefix
             /\ NewlyFed[1] = DetachKey /\ NewlyFed[2] = CharD) => detached' = 1
         /\ (/\ Len(NewlyFed) = 1 /\ detached = 0 /\ ~pendingPrefix
             /\ NewlyFed[1] = DetachKey) => pendingPrefix' /\ detached' = 0
    ]_vars

\* An observer whose terminal changed size in the steady state typed the
\* detach key in one read and 'd' in the next, after a plain 'd' went through
\* the drain phase; it detached, having sent its Mode frame alone.
C12_Witness ==
    /\ ReadOnly
    /\ nWinch = 1
    /\ stdinLog = <<CharD, CtrlD, CharD>>
    /\ fed = <<1, 2, 3>>
    /\ nReads = 3
    /\ detached = 1
    /\ Len(sent) = 1 /\ sent[1].t = TypeMode

\* ------------------------------- broadcast against the OS socket buffers
\* The frames a connection's socket buffer holds before a write blocks.
SockCap == 1

\* s.Lock held by the output loop, inside broadcast.
OutputLoop == NConn + 1

\* A front-end stops reading from its socket and keeps the connection open.
PeerStall(c) ==
    /\ UNCHANGED <<daemonVars, offStall>>
    /\ ~stalled[c]
    /\ ~cliClosed[c]
    /\ stalled' = [stalled EXCEPT ![c] = TRUE]
    /\ UNCHANGED <<sockBuf, bpc, todo, logged>>

\* The read loop of a front-end takes the next frame out of the socket.
PeerRead(c) ==
    /\ ~stalled[c]
    /\ sockBuf[c] # <<>>
    /\ inbox' = [inbox EXCEPT ![c] = Append(@, Head(sockBuf[c]))]
    /\ sockBuf' = [sockBuf EXCEPT ![c] = Tail(@)]
    /\ UNCHANGED <<srvVars, connVars, kicks, nFrames, outVars, ptyVars,
                   runVars>>
    /\ UNCHANGED <<stalled, bpc, todo, logged>>
    /\ UNCHANGED offStall

\* ptmx.Read returns a chunk; it is written to the log and broadcast is
\* called.
PtyRead ==
    /\ daemon = "running"
    /\ outLoop = "reading"
    /\ bpc = "read"
    /\ nPub < produced
    /\ nPub' = nPub + 1
    /\ logged' = logged + 1
    /\ bpc' = "lock"
    /\ UNCHANGED <<srvVars, connVars, netVars, nFrames, produced, ptyVars,
                   runVars>>
    /\ UNCHANGED <<sockBuf, stalled, todo>>
    /\ UNCHANGED offStall

\* s.Lock.Lock() in broadcast, and the start of the range over s.Clients.
BroadcastLock ==
    /\ bpc = "lock"
    /\ Lock = LockFree
    /\ Lock' = OutputLoop
    /\ todo' = Clients
    /\ bpc' = "write"
    /\ UNCHANGED <<Master, Clients, connVars, netVars, nFrames, outVars,
                   ptyVars, runVars>>
    /\ UNCHANGED <<sockBuf, stalled, logged>>
    /\ UNCHANGED offStall

\* WritePacket(conn, TypeData, data) in the range loop.  conn has no write
\* deadline: the write returns an error on a closed connection, returns nil
\* once the socket buffer has taken the frame, and until then does not
\* return.
BroadcastWrite(c) ==
    /\ bpc = "write"
    /\ c \in todo
    /\ IF ~WriteOK(c)
          THEN /\ srvClosed' = [srvClosed EXCEPT ![c] = TRUE]
               /\ Clients' = Clients \ {c}
               /\ UNCHANGED sockBuf
          ELSE /\ Len(sockBuf[c]) < SockCap
               /\ sockBuf' = [sockBuf EXCEPT ![c] = Append(@, nPub)]
               /\ UNCHANGED <<srvClosed, Clients>>
    /\ todo' = todo \ {c}
    /\ UNCHANGED <<Master, Lock, pc, role, cur, cliClosed, netVars, nFrames,
                   outVars, ptyVars, runVars>>
    /\ UNCHANGED <<stalled, bpc, logged>>
    /\ UNCHANGED offStall

\* The range loop is over: the deferred s.Lock.Unlock(), and the output loop
\* goes back to ptmx.Read.
BroadcastUnlock ==
    /\ bpc = "write"
    /\ todo = {}
    /\ Lock' = LockFree
    /\ bpc' = "read"
    /\ UNCHANGED <<Master, Clients, connVars, netVars, nFrames, outVars,
                   ptyVars, runVars>>
    /\ UNCHANGED <<sockBuf, stalled, todo, logged>>
    /\ UNCHANGED offStall

\* The front-ends of this specification attach as observers.
ObserverMode == Frame(TypeMode, <<ModeReadOnly>>)

NextStall ==
    \/ \E c \in Conns : Accept(c, ObserverMode)
    \/ \E c \in Conns : InstallLock(c)
    \/ \E c \in Conns : InstallInsert(c)
    \/ \E c \in Conns : ClientClose(c)
    \/ \E c \in Conns : PeerStall(c)
    \/ \E c \in Conns : PeerRead(c)
    \/ ShellWrite
    \/ PtyRead
    \/ BroadcastLock
    \/ \E c \in Conns : BroadcastWrite(c)
    \/ BroadcastUnlock

InitStall == InitDaemon /\ NoFrontEnd /\ NoStall /\ OthersIdle("stall")

\* Fair scheduling: every goroutine that can run does run, sync.Mutex hands
\* the lock to every waiter in turn, and a front-end that has not stalled
\* keeps reading.
FairStall ==
    /\ InitStall /\ [][NextStall]_vars
    /\ WF_vars(PtyRead)
    /\ SF_vars(BroadcastLock)
    /\ WF_vars(\E c \in Conns : BroadcastWrite(c))
    /\ WF_vars(BroadcastUnlock)
    /\ \A c \in Conns : /\ SF_vars(InstallLock(c))
                        /\ WF_vars(InstallInsert(c))
                        /\ WF_vars(PeerRead(c))

\* -------------------------------------------------------------------- C13
\* C13, for the producer: under fair scheduling every call to broadcast
\* returns, whatever its peers do with their sockets.
C13_PublishReturns == (bpc \in {"lock", "write"}) ~> (bpc = "read")

\* C13, for the other peers: a chunk the shell wrote reaches every installed
\* peer that keeps reading and stays connected.
C13_OthersServed ==
    \A c \in Conns :
        [](c \in Clients /\ produced = MaxChunks
             => <>(\/ stalled[c] \/ ~WriteOK(c)
                   \/ (inbox[c] # <<>> /\ Last(inbox[c]) = MaxChunks)))

\* C13, for new connections: a handler that has read its Mode frame gets
\* installed.
C13_InstallsProceed ==
    \A c \in Conns : (pc[c] = "lock") ~> (pc[c] # "lock")

\* C13: a peer that stops reading never stalls the producer -- every call to
\* broadcast returns, the peers that keep reading get the output, and
\* handlers waiting to install their connection get to.
C13_ProducerNeverStalls ==
    /\ C13_PublishReturns
    /\ C13_OthersServed
    /\ C13_InstallsProceed

\* -------------------------------------------------------------- replayTail
\* '\n'
NL == 10

Min(a, b) == IF a < b THEN a ELSE b

\* The loop `for offset >= 0` of replayTail, from the Seek of one pass on.
\* buf keeps the length it was made with (bufLen): the pass reads bufLen
\* bytes at offset, whatever bufSize has become.  finalData is fd, unless
\* aliased: `append(buf, finalData...)` with an empty finalData returns buf
\* itself, and finalData then is whatever buf holds.
RECURSIVE replayWindows(_, _, _, _, _, _, _, _)
replayWindows(file, n, bufLen, offset, bufSize, lines, fd, aliased) ==
    LET fileSize == Len(file)
        buf == SubSeq(file, offset + 1, offset + bufLen)
        finalData == IF aliased THEN buf ELSE fd
        \* the indices i + 1 of the newlines the scan counts
        counted == {j \in 1..bufLen : buf[j] = NL /\ offset + j # fileSize}
        need == n - lines
    IN  IF Cardinality(counted) >= need
           THEN LET j == CHOOSE j \in counted :
                             Cardinality({k \in counted : k > j}) = need - 1
                IN SubSeq(buf, j + 1, bufLen) \o finalData
        ELSE LET shares == Len(finalData) = 0
                 fd2 == IF shares THEN <<>> ELSE buf \o finalData
                 lines2 == lines + Cardinality(counted)
             IN  IF offset = 0
                    THEN (IF shares THEN buf ELSE fd2)
                 ELSE IF offset - bufSize < 0
                    THEN replayWindows(file, n, bufLen, 0,
                                       bufSize + (offset - bufSize), lines2,
                                       fd2, shares)
                 ELSE replayWindows(file, n, bufLen, offset - bufSize,
                                    bufSize, lines2, fd2, shares)

\* replayTail(w, f, n): what it writes to w.
replayTail(file, n) ==
    IF Len(file) = 0 THEN <<>>
    ELSE LET bufSize == Min(WindowSize, Len(file)) IN
         replayWindows(file, n, bufSize, Len(file) - bufSize, bufSize, 0,
                       <<>>, FALSE)

TailBytes == {NL, CharX, CharD}

\* Attach calls replayTail(os.Stdout, f, tail) for a log file, tail > 0.
ReplayTailCall ==
    /\ ~tailDone
    /\ tailOut' = replayTail(tailFile, tailN)
    /\ tailDone' = TRUE
    /\ UNCHANGED <<tailFile, tailN, tailSegs>>
    /\ UNCHANGED offTail

NextTail == ReplayTailCall

InitTail ==
    /\ InitDaemon /\ NoFrontEnd /\ OthersIdle("tail")
    /\ tailFile \in UNION {[1..k -> TailBytes] : k \in 0..MaxFile}
    /\ tailN \in 1..MaxTail
    /\ tailOut = <<>>
    /\ tailDone = FALSE
    /\ tailSegs = <<>>

SpecTail == InitTail /\ [][NextTail]_vars

\* The replay loop of Attach with tail > 0: replayTail on every log file in
\* turn, all to os.Stdout.
RECURSIVE replayLoop(_, _)
replayLoop(logFiles, n) ==
    IF logFiles = <<>> THEN <<>>
    ELSE replayTail(Head(logFiles), n) \o replayLoop(Tail(logFiles), n)

\* The segments of a history, and the bytes of a segment, in the model.
MaxSegs == 2
MaxSegLen == 2
SegBytes == {NL, CharX}
Segments == UNION {[1..k -> SegBytes] : k \in 0..MaxSegLen}

\* Attach replays the log files with tail = tailN.
ReplayLoopCall ==
    /\ ~tailDone
    /\ tailOut' = replayLoop(tailSegs, tailN)
    /\ tailDone' = TRUE
    /\ UNCHANGED <<tailFile, tailN, tailSegs>>
    /\ UNCHANGED offTail

NextReplay == ReplayLoopCall

InitReplay ==
    /\ InitDaemon /\ NoFrontEnd /\ OthersIdle("tail")
    /\ tailSegs \in UNION {[1..k -> Segments] : k \in 1..MaxSegs}
    /\ tailN \in 1..MaxTail
    /\ tailFile = <<>>
    /\ tailOut = <<>>
    /\ tailDone = FALSE

SpecReplay == InitReplay /\ [][NextReplay]_vars

\* -------------------------------------------------------------------- C14
\* The newlines that end a line before the last: every newline but one that
\* is the last byte of the file.
CountedNewlines(file) == {i \in 1..Len(file) : file[i] = NL /\ i # Len(file)}

\* The lines of a file.
LineCount(file) == IF file = <<>> THEN 0
                   ELSE Cardinality(CountedNewlines(file)) + 1

\* The last n lines of the file: the whole file if it has no more than n,
\* else what follows the (L - n)-th counted newline.
LastLines(file, n) ==
    IF n >= LineCount(file) THEN file
    ELSE LET p == CHOOSE p \in CountedNewlines(file) :
                     Cardinality({q \in CountedNewlines(file) : q <= p})
                         = LineCount(file) - n
         IN SubSeq(file, p + 1, Len(file))

\* C14: replayTail(w, f, n) with n > 0 writes the whole file if it has no
\* more than n lines and otherwise the suffix after the (L - n)-th newline,
\* a newline in the last byte not counted, for files of every length.
C14_LastLines == tailDone => tailOut = LastLines(tailFile, tailN)

\* C14 for the files that fit in one window.
C14_OneWindow ==
    (tailDone /\ Len(tailFile) <= WindowSize)
        => tailOut = LastLines(tailFile, tailN)

\* ------------------------------------------------- LogRotator, GetLogFiles
\* fmt.Sprintf("%d", k): the decimal digits of k.
RECURSIVE Itoa(_)
Itoa(k) == IF k < 10 THEN <<k>> ELSE Append(Itoa(k \div 10), k % 10)

\* strconv.Atoi on a string of digits.
RECURSIVE Atoi(_)
Atoi(d) == IF Len(d) = 1 THEN d[1]
           ELSE 10 * Atoi(SubSeq(d, 1, Len(d) - 1)) + d[Len(d)]

\* The name N.log: no digits after it.
ActiveLog == <<>>

\* The order of file names as strings.
RECURSIVE NameLess(_, _)
NameLess(a, b) ==
    IF a = <<>> THEN b # <<>>
    ELSE IF b = <<>> THEN FALSE
    ELSE IF a[1] # b[1] THEN a[1] < b[1]
    ELSE NameLess(Tail(a), Tail(b))

\* The rotated names sorted as strings.
RECURSIVE sortByName(_)
sortByName(names) ==
    IF names = {} THEN <<>>
    ELSE LET first == CHOOSE a \in names :
                          \A b \in names \ {a} : NameLess(a, b)
         IN <<first>> \o sortByName(names \ {first})

\* sort.Slice(rotated, index ascending) on the rotated names.
RECURSIVE sortByIndex(_)
sortByIndex(names) ==
    IF names = {} THEN <<>>
    ELSE LET first == CHOOSE a \in names :
                          \A b \in names \ {a} : Atoi(a) < Atoi(b)
         IN <<first>> \o sortByIndex(names \ {first})

\* GetLogFiles(name): the rotated segments by index, then the active log if
\* it exists.
GetLogFiles(dir) ==
    LET rotated == {f.name : f \in {g \in dir : Len(g.name) > 0}}
    IN  sortByIndex(rotated) \o
        (IF \E f \in dir : f.name = ActiveLog THEN <<ActiveLog>> ELSE <<>>)

SetMax(S) == IF S = {} THEN 0 ELSE CHOOSE x \in S : \A y \in S : y <= x

FileNamed(dir, name) == CHOOSE f \in dir : f.name = name

\* A rotation that removes the newest rotated segment of the list instead of
\* the oldest.
rotateDropsNewest(dir) ==
    LET files == GetLogFiles(dir)
        maxIdx == SetMax({Atoi(files[i]) :
                             i \in {j \in 1..Len(files) : Len(files[j]) > 0}})
        nextIdx == maxIdx + 1
        renamed == (dir \ {FileNamed(dir, ActiveLog)})
                       \cup {[name |-> Itoa(nextIdx),
                              data |-> FileNamed(dir, ActiveLog).data]}
        toRemove == IF Len(files) >= 2 THEN files[Len(files) - 1]
                                       ELSE files[1]
        kept == IF Len(files) >= maxFiles /\ toRemove # ActiveLog
                   THEN renamed \ {FileNamed(renamed, toRemove)}
                   ELSE renamed
    IN  kept \cup {[name |-> ActiveLog, data |-> <<>>]}

\* rotate(): the active log is renamed to the index after the highest one,
\* the oldest listed file is removed once the list (taken before the rename)
\* has maxFiles entries, unless it is the active path, and the active log is
\* reopened empty.
rotate(dir) ==
    LET files == GetLogFiles(dir)
        maxIdx == SetMax({Atoi(files[i]) :
                             i \in {j \in 1..Len(files) : Len(files[j]) > 0}})
        nextIdx == maxIdx + 1
        renamed == (dir \ {FileNamed(dir, ActiveLog)})
                       \cup {[name |-> Itoa(nextIdx),
                              data |-> FileNamed(dir, ActiveLog).data]}
        toRemove == files[1]
        kept == IF Len(files) >= maxFiles /\ toRemove # ActiveLog
                   THEN renamed \ {FileNamed(renamed, toRemove)}
                   ELSE renamed
    IN  kept \cup {[name |-> ActiveLog, data |-> <<>>]}

\* LogRotator.Write(p), p the next n bytes of the output.
Write(n) ==
    /\ nWrites < MaxWrites
    /\ nWrites' = nWrites + 1
    /\ written' = written + n
    /\ LET p == [i \in 1..n |-> written + i]
           rotates == size + n > maxSize
           dir == IF rotates THEN rotate(logDir) ELSE logDir
           currentFile == FileNamed(dir, ActiveLog)
       IN  /\ logDir' = (dir \ {currentFile})
                           \cup {[name |-> ActiveLog,
                                  data |-> currentFile.data \o p]}
           /\ size' = (IF rotates THEN 0 ELSE size) + n
           /\ lastP' = p
    /\ rotFailed' = FALSE
    /\ activeWas' = FileNamed(logDir, ActiveLog).data
    /\ UNCHANGED <<maxFiles, maxSize, fresh, nFaults>>
    /\ UNCHANGED offRot

NextRotator == \E n \in 0..(maxSize + 1) : Write(n)

\* The rotations that fail in the life of a sink.
MaxFaults == 1

\* reopen() after a failed step of rotate: basePath is opened with O_TRUNC
\* ("trunc"); if that fails, with O_APPEND ("append"); if that fails too
\* currentFile stays the closed file ("closed").  What the active log holds
\* after the Write of p that follows.
reopenThenWrite(data, p, opened) ==
    IF opened = "trunc" THEN p
    ELSE IF opened = "append" THEN data \o p
    ELSE data

\* LogRotator.Write(p) when rotate fails: step "list" for an error of
\* GetLogFiles, "rename" for an error of os.Rename.  rotate has closed the
\* file and returns after reopen(); Write reports it and writes p to
\* currentFile.
WriteRotateFails(n, step, opened) ==
    /\ nWrites < MaxWrites
    /\ nFaults < MaxFaults
    /\ nFaults' = nFaults + 1
    /\ size + n > maxSize
    /\ step \in {"list", "rename"}
    /\ nWrites' = nWrites + 1
    /\ written' = written + n
    /\ LET p == [i \in 1..n |-> written + i]
           currentFile == FileNamed(logDir, ActiveLog)
       IN  /\ logDir' = (logDir \ {currentFile})
                           \cup {[name |-> ActiveLog,
                                  data |-> reopenThenWrite(currentFile.data,
                                                           p, opened)]}
           /\ size' = IF opened = "closed" THEN size ELSE n
           /\ lastP' = p
           /\ activeWas' = currentFile.data
    /\ rotFailed' = TRUE
    /\ UNCHANGED <<maxFiles, maxSize, fresh>>
    /\ UNCHANGED offRot

\* Writes on a file system where a step of a rotation may fail.
NextRotatorFaults ==
    \/ \E n \in 0..(maxSize + 1) : Write(n)
    \/ \E n \in 1..(maxSize + 1) :
          \E step \in {"list", "rename"} :
             \E opened \in {"trunc", "append", "closed"} :
                WriteRotateFails(n, step, opened)

\* A rotated segment an earlier daemon of the session left behind.
EarlierSegment == [name |-> Itoa(9), data |-> <<0>>]

\* NewLogRotator: the active log is created or truncated.
InitRotator ==
    /\ InitDaemon /\ NoFrontEnd /\ OthersIdle("rot")
    /\ maxFiles \in 1..MaxSegments
    /\ maxSize \in 2..MaxSegSize
    /\ size = 0
    /\ fresh \in BOOLEAN
    /\ logDir = {[name |-> ActiveLog, data |-> <<>>]}
                   \cup (IF fresh THEN {} ELSE {EarlierSegment})
    /\ written = 0
    /\ nWrites = 0
    /\ rotFailed = FALSE /\ activeWas = <<>> /\ lastP = <<>>
    /\ nFaults = 0

SpecRotator == InitRotator /\ [][NextRotator]_vars

SpecRotatorFaults == InitRotator /\ [][NextRotatorFaults]_vars

\* -------------------------------------------------------------------- C15
\* C15: a sink started for a session without earlier rotated segments keeps
\* at least 1 and at most max_segments segment files on disk, after any
\* sequence of writes and for every max_segments >= 1.
C15_SegmentCount ==
    fresh => /\ Cardinality(logDir) >= 1
             /\ Cardinality(logDir) <= maxFiles

\* C15 for max_segments >= 2.
C15_TwoOrMore ==
    (fresh /\ maxFiles >= 2) => /\ Cardinality(logDir) >= 1
                                /\ Cardinality(logDir) <= maxFiles

\* -------------------------------------------------------------------- C16
\* The bytes of this sink that are still in a file.
Preserved == UNION {{f.data[i] : i \in 1..Len(f.data)} : f \in logDir} \ {0}

\* C16: after M bytes were written, in any sequence of calls, at least
\* min(M, (max_segments - 1) * segment_size_bytes) of them are on disk.
C16_BytesPreserved ==
    fresh => Cardinality(Preserved) >= Min(written, (maxFiles - 1) * maxSize)

\* -------------------------------------------------------------------- C17
RotatedNames(dir) == {f.name : f \in {g \in dir : g.name # ActiveLog}}

\* What a replay of the files in the given order puts out.
RECURSIVE Concat(_, _)
Concat(dir, files) ==
    IF files = <<>> THEN <<>>
    ELSE FileNamed(dir, Head(files)).data \o Concat(dir, Tail(files))

Ascending(s) == \A i, j \in 1..Len(s) : i < j => s[i] < s[j]

\* C17: a rotation gives the rotated segment an index above every rotated
\* index on disk; log_files lists the rotated segments by ascending numeric
\* index and the active log last; and the bytes of the files, in the listed
\* order, are in the order they were written.
C17_Chronological ==
    [][LET files == GetLogFiles(logDir')
           n == Len(files) IN
       /\ \A new \in RotatedNames(logDir') \ RotatedNames(logDir) :
             \A old \in RotatedNames(logDir) : Atoi(new) > Atoi(old)
       /\ files[n] = ActiveLog
       /\ \A i \in 1..(n - 1) : files[i] # ActiveLog
       /\ Ascending([i \in 1..(n - 1) |-> Atoi(files[i])])
       /\ Ascending(Concat(logDir', files))
    ]_vars

\* N.log.9 from an earlier daemon, N.log.10 from a rotation and N.log, all
\* with bytes in them, are listed in this order.
C17_Witness ==
    /\ GetLogFiles(logDir) = <<Itoa(9), Itoa(10), ActiveLog>>
    /\ \A f \in logDir : f.data # <<>>

\* ------------------------------------------------ WritePacket, ReadPacket
\* Byte strings are kept as runs, <<[b |-> 7, n |-> 3]>> for 7 7 7, with no
\* two neighbours of the same byte, so that equal strings are equal values.
Run(b, n) == [b |-> b, n |-> n]

\* a followed by b.
Cat(a, b) ==
    IF a = <<>> THEN b
    ELSE IF b = <<>> THEN a
    ELSE IF a[Len(a)].b = b[1].b
       THEN SubSeq(a, 1, Len(a) - 1)
                \o <<Run(b[1].b, a[Len(a)].n + b[1].n)>> \o Tail(b)
    ELSE a \o b

\* The runs of a sequence of bytes.
RECURSIVE Runs(_)
Runs(bytes) ==
    IF bytes = <<>> THEN <<>>
    ELSE Cat(<<Run(bytes[1], 1)>>, Runs(Tail(bytes)))

\* len(a)
RECURSIVE RLen(_)
RLen(a) == IF a = <<>> THEN 0 ELSE a[1].n + RLen(Tail(a))

\* a[:k]
RECURSIVE Take(_, _)
Take(a, k) ==
    IF k = 0 \/ a = <<>> THEN <<>>
    ELSE IF a[1].n >= k THEN <<Run(a[1].b, k)>>
    ELSE Cat(<<a[1]>>, Take(Tail(a), k - a[1].n))

\* a[k:]
RECURSIVE Drop(_, _)
Drop(a, k) ==
    IF k = 0 \/ a = <<>> THEN a
    ELSE IF a[1].n > k THEN <<Run(a[1].b, a[1].n - k)>> \o Tail(a)
    ELSE Drop(Tail(a), k - a[1].n)

\* a[i - 1]
RECURSIVE At(_, _)
At(a, i) == IF i <= a[1].n THEN a[1].b ELSE At(Tail(a), i - a[1].n)

\* The length check shifted by one: a payload of MaxPayloadSize is refused.
exceedsMaxInclusive(n) == n >= MaxPayloadSize

\* `len(payload) > MaxPayloadSize` in WritePacket, `length > MaxPayloadSize`
\* in ReadPacket.
exceedsMax(n) == n > MaxPayloadSize

\* The four bytes of n, lowest first.
PutUint32LittleEndian(n) ==
    <<n % 256, (n \div 256) % 256, (n \div 65536) % 256,
      (n \div 16777216) % 256>>

\* binary.BigEndian.PutUint32
PutUint32(n) ==
    <<(n \div 16777216) % 256, (n \div 65536) % 256, (n \div 256) % 256,
      n % 256>>

\* binary.BigEndian.Uint32
Uint32(b) == b[1] * 16777216 + b[2] * 65536 + b[3] * 256 + b[4]

\* The largest declared length of the model's streams: 0x7FFFFFFF.
HugeLength == 2147483647

\* WritePacket(w, t, payload): the error it returns and the bytes it writes.
WritePacket(t, payload) ==
    IF exceedsMax(RLen(payload))
       THEN [err |-> "ErrShortBuffer", out |-> <<>>]
       ELSE [err |-> "nil",
             out |-> Cat(Runs(<<t>> \o PutUint32(RLen(payload))), payload)]

\* ReadPacket(r) on a stream that holds the bytes r and then ends: what it
\* returns and the number n of bytes it took.  io.ReadFull reports EOF when
\* it gets no byte and ErrUnexpectedEOF when it gets too few.
ReadPacket(r) ==
    IF RLen(r) < 5
       THEN [t |-> 0, p |-> <<>>, n |-> RLen(r),
             err |-> IF RLen(r) = 0 THEN "EOF" ELSE "ErrUnexpectedEOF"]
    ELSE LET header == [i \in 1..5 |-> At(r, i)]
             length == Uint32(SubSeq(header, 2, 5)) IN
         IF exceedsMax(length)
            THEN [t |-> 0, p |-> <<>>, n |-> 5, err |-> "ErrUnexpectedEOF"]
         ELSE IF RLen(r) - 5 < length
            THEN [t |-> 0, p |-> <<>>, n |-> RLen(r),
                  err |-> IF RLen(r) = 5 THEN "EOF" ELSE "ErrUnexpectedEOF"]
         ELSE [t |-> header[1], p |-> Take(Drop(r, 5), length),
               n |-> 5 + length, err |-> "nil"]

\* The length the header at the front of r declares.
Declared(r) == Uint32([i \in 1..4 |-> At(r, i + 1)])

\* ReadPacket has all the bytes it asks for, or the stream has ended.
ReadReturns(r) ==
    \/ ~wOpen
    \/ /\ RLen(r) >= 5
       /\ \/ exceedsMax(Declared(r))
          \/ RLen(r) - 5 >= Declared(r)

WireTypes == {TypeData, TypeResize, TypeSignal, TypeKick, TypeMode, TypeEnv}

\* The payloads given to WritePacket: the short ones, one of
\* MaxPayloadSize bytes and one a byte longer.
Payloads ==
    {Runs(p) : p \in UNION {[1..k -> {0, 255}] : k \in 0..MaxSmall}}
        \cup {<<Run(0, 1), Run(255, MaxPayloadSize - 1)>>,
              <<Run(0, 1), Run(255, MaxPayloadSize)>>}

\* A call of WritePacket on the stream.
WriteCall(t, payload) ==
    /\ wOpen
    /\ nWire < MaxWire
    /\ nWire' = nWire + 1
    /\ LET w == WritePacket(t, payload) IN
       /\ lastWrite' = [call |-> nWire + 1, len |-> RLen(payload),
                        err |-> w.err]
       /\ wire' = Cat(wire, w.out)
       /\ sentFrames' = IF w.err = "nil"
                           THEN Append(sentFrames, [t |-> t, p |-> payload])
                           ELSE sentFrames
    /\ UNCHANGED <<wOpen, foreign, got, rdErr, consumed>>
    /\ UNCHANGED offWire

\* A peer that does not use WritePacket writes a header that declares
\* length, and k bytes after it.
RawWrite(t, length, k) ==
    /\ wOpen
    /\ nWire < MaxWire
    /\ nWire' = nWire + 1
    /\ wire' = Cat(wire, Runs(<<t>> \o PutUint32(length)
                                   \o [i \in 1..k |-> 255]))
    /\ foreign' = TRUE
    /\ UNCHANGED <<wOpen, sentFrames, lastWrite, got, rdErr, consumed>>
    /\ UNCHANGED offWire

\* The writing end is closed.
CloseWrite ==
    /\ wOpen
    /\ wOpen' = FALSE
    /\ UNCHANGED <<wire, sentFrames, lastWrite, foreign, got, rdErr,
                   consumed, nWire>>
    /\ UNCHANGED offWire

\* A call of ReadPacket on the stream; the reader stops at the first error.
ReadCall ==
    /\ rdErr = "none"
    /\ ReadReturns(wire)
    /\ \E r \in {ReadPacket(wire)} :
          /\ wire' = Drop(wire, r.n)
          /\ consumed' = consumed + r.n
          /\ IF r.err = "nil"
                THEN /\ got' = Append(got, [t |-> r.t, p |-> r.p])
                     /\ UNCHANGED rdErr
                ELSE /\ rdErr' = r.err
                     /\ UNCHANGED got
    /\ UNCHANGED <<wOpen, sentFrames, lastWrite, foreign, nWire>>
    /\ UNCHANGED offWire

NextWire ==
    \/ \E t \in WireTypes : \E payload \in Payloads : WriteCall(t, payload)
    \/ \E length \in {MaxPayloadSize + 1, HugeLength} :
          \E k \in {0, 2} : RawWrite(TypeData, length, k)
    \/ CloseWrite
    \/ ReadCall

InitWire ==
    /\ InitDaemon /\ NoFrontEnd /\ OthersIdle("wire")
    /\ wire = <<>> /\ wOpen = TRUE /\ sentFrames = <<>>
    /\ lastWrite = [call |-> 0, len |-> 0, err |-> "none"] /\ foreign = FALSE
    /\ got = <<>> /\ rdErr = "none" /\ consumed = 0 /\ nWire = 0

SpecWire == InitWire /\ [][NextWire]_vars

\* -------------------------------------------------------------------- C18
\* The bytes the frames s[from], ..., s[Len(s)] take on the stream.
RECURSIVE WireLen(_, _)
WireLen(s, from) ==
    IF from > Len(s) THEN 0 ELSE 5 + RLen(s[from].p) + WireLen(s, from + 1)

\* C18: on a stream that WritePacket alone wrote, ReadPacket returns the
\* frames written, type and payload, in the order written, takes exactly
\* their bytes, and ends with EOF after the last frame and in no other
\* way; payloads of 0 to MaxPayloadSize bytes included.
C18_RoundTrip ==
    ~foreign =>
        /\ Len(got) <= Len(sentFrames)
        /\ got = SubSeq(sentFrames, 1, Len(got))
        /\ consumed = WireLen(sentFrames, 1) - WireLen(sentFrames, Len(got) + 1)
        /\ RLen(wire) = WireLen(sentFrames, Len(got) + 1)
        /\ rdErr \in {"none", "EOF"}
        /\ rdErr = "EOF" => got = sentFrames /\ ~wOpen

\* A stream of an empty frame and one of MaxPayloadSize bytes was read back
\* to its end.
C18_Witness ==
    /\ ~foreign
    /\ Len(sentFrames) = 2
    /\ sentFrames[1] = [t |-> TypeKick, p |-> <<>>]
    /\ sentFrames[2] = [t |-> TypeData,
                        p |-> <<Run(0, 1), Run(255, MaxPayloadSize - 1)>>]
    /\ got = sentFrames
    /\ wire = <<>>
    /\ rdErr = "EOF"

\* -------------------------------------------------------------------- C19
\* The step is a call of ReadPacket.
ReadStep == consumed' # consumed \/ rdErr' # rdErr \/ got' # got

\* The step is a call of WritePacket.
WriteStep == lastWrite' # lastWrite

\* C19: ReadPacket returns an error and has taken the 5 header bytes alone
\* when the header declares more than MaxPayloadSize, and returns the frame
\* when it declares MaxPayloadSize and the payload is there; WritePacket
\* returns an error and has written nothing for a payload longer than
\* MaxPayloadSize, and writes the frame for one of MaxPayloadSize bytes.
C19_LengthLimit ==
    [][/\ (ReadStep /\ RLen(wire) >= 5 /\ Declared(wire) > MaxPayloadSize)
          => /\ rdErr' # "none"
             /\ consumed' = consumed + 5
             /\ wire' = Drop(wire, 5)
             /\ got' = got
       /\ (/\ ReadStep /\ RLen(wire) >= 5 + MaxPayloadSize
           /\ Declared(wire) = MaxPayloadSize)
          => /\ rdErr' = "none"
             /\ got' = Append(got, [t |-> At(wire, 1),
                                    p |-> Take(Drop(wire, 5), MaxPayloadSize)])
       /\ (WriteStep /\ lastWrite'.len > MaxPayloadSize)
          => /\ lastWrite'.err = "ErrShortBuffer"
             /\ wire' = wire
       /\ (WriteStep /\ lastWrite'.len = MaxPayloadSize)
          => /\ lastWrite'.err = "nil"
             /\ RLen(wire') = RLen(wire) + 5 + MaxPayloadSize
    ]_vars

\* WritePacket refused a payload of MaxPayloadSize + 1 bytes, and wrote one
\* of MaxPayloadSize bytes, which ReadPacket returned; ReadPacket then met a
\* header declaring MaxPayloadSize + 1, returned an error and left the two
\* bytes after the header on the stream.
C19_Witness ==
    /\ lastWrite.len = MaxPayloadSize + 1 /\ lastWrite.err = "ErrShortBuffer"
    /\ foreign
    /\ rdErr = "ErrUnexpectedEOF"
    /\ Len(got) = 1 /\ RLen(got[1].p) = MaxPayloadSize
    /\ consumed = 5 + MaxPayloadSize + 5
    /\ RLen(wire) = 2

\* ------------------------------------------------ IsAlive, Cleanup, List
\* The session names: ValidateName admits no '.', so that no artifact of one
\* session has the name of an artifact of another.
SessionNames == 1..NSessions

\* The pid of a process that exists, and of one that does not.
LivePid == 1
DeadPid == 2

\* An IsAlive that trusts the pid and does not dial the socket.
IsAlivePidOnly(files, info) ==
    /\ info.pid > 0
    /\ info.pid \in alivePids

\* Info.IsAlive: the pid is positive, answers signal 0, and a connection to
\* Name.sock is accepted within the timeout.
IsAlive(files, info) ==
    /\ info.pid > 0
    /\ info.pid \in alivePids
    /\ <<info.name, "sock", 0>> \in files
    /\ info.name \in listening

\* ReadInfo(name) succeeds: N.info is there and parses.
ReadInfoOK(files, name) == <<name, "info", 0>> \in files /\ infoOf[name].ok

\* Cleanup(name): N.sock, N.info, N.ssh_auth_sock, N.log and every file
\* whose name starts with "N.log." are removed.
Cleanup(files, name) ==
    {f \in files :
        ~ \/ f = <<name, "sock", 0>>
          \/ f = <<name, "info", 0>>
          \/ f = <<name, "ssh_auth_sock", 0>>
          \/ f = <<name, "log", 0>>
          \/ (f[1] = name /\ f[2] = "log" /\ f[3] > 0)}

\* The loop of List over the directory entries that end in ".sock", in the
\* order of os.ReadDir, from the entry of name on: the files left and the
\* sessions collected.
RECURSIVE ListFrom(_, _, _, _)
ListFrom(entries, name, files, sessions) ==
    IF name > NSessions THEN [files |-> files, sessions |-> sessions]
    ELSE IF <<name, "sock", 0>> \notin entries
       THEN ListFrom(entries, name + 1, files, sessions)
    ELSE IF ~ReadInfoOK(files, name)
       THEN ListFrom(entries, name + 1, Cleanup(files, name), sessions)
    ELSE IF IsAlive(files, infoOf[name])
       THEN ListFrom(entries, name + 1, files, Append(sessions, name))
    ELSE ListFrom(entries, name + 1, Cleanup(files, name), sessions)

\* No call on the session directory has been made yet.
NoCallYet == ~listDone /\ ~cleanDone /\ ~renameDone

\* List()
ListCall ==
    /\ NoCallYet
    /\ \E r \in {ListFrom(dirFiles, 1, dirFiles, <<>>)} :
          /\ dirFiles' = r.files
          /\ listed' = r.sessions
    /\ listDone' = TRUE
    /\ origin' = [f \in dirFiles' |-> origin[f]]
    /\ UNCHANGED <<dirBefore, infoOf, alivePids, listening, cleanDone,
                   removedCount, renameDone, oldName, newName, renameErr,
                   bootPc>>
    /\ UNCHANGED offList

\* Clean told apart by file names without the pattern of rotated logs.
isSessionFileNoSegments(f) ==
    \/ f[2] = "sock" /\ f[3] = 0
    \/ f[2] = "info" /\ f[3] = 0
    \/ f[2] = "ssh_auth_sock" /\ f[3] = 0
    \/ f[2] = "log" /\ f[3] = 0

\* The branches of Clean on a file name: it ends in .sock, .info,
\* .ssh_auth_sock or .log, or it matches ^(.*)\.log\.\d+$.
isSessionFile(f) ==
    \/ f[2] = "sock" /\ f[3] = 0
    \/ f[2] = "info" /\ f[3] = 0
    \/ f[2] = "ssh_auth_sock" /\ f[3] = 0
    \/ f[2] = "log" /\ f[3] = 0
    \/ f[2] = "log" /\ f[3] > 0

\* The name Clean cuts out of a file name.
sessionName(f) == f[1]

\* Step 1 of Clean: the names of the .info entries that ReadInfo reads and
\* whose Info passes IsAlive.
active(files) ==
    {n \in SessionNames :
        /\ <<n, "info", 0>> \in files
        /\ ReadInfoOK(files, n)
        /\ IsAlive(files, infoOf[n])}

\* Step 2 of Clean: the files it removes.
cleanRemoves(files) ==
    {f \in files : isSessionFile(f) /\ sessionName(f) \notin active(files)}

\* Clean()
CleanCall ==
    /\ NoCallYet
    /\ dirFiles' = dirFiles \ cleanRemoves(dirFiles)
    /\ removedCount' = Cardinality(cleanRemoves(dirFiles))
    /\ cleanDone' = TRUE
    /\ origin' = [f \in dirFiles' |-> origin[f]]
    /\ UNCHANGED <<dirBefore, infoOf, alivePids, listening, listed, listDone,
                   renameDone, oldName, newName, renameErr, bootPc>>
    /\ UNCHANGED offList

\* A name that nameRegex refuses, as "a.b" or the empty name.
InvalidName == 0

\* ValidateName(name) returns nil.
ValidateName(name) == name \in SessionNames

\* os.Rename(old+ext, new+ext) when os.Stat finds old+ext: the file takes
\* the new name, in the place of whatever had it.  d is [files, origin].
renameExt(d, old, new, ext) ==
    IF <<old, ext, 0>> \notin d.files THEN d
    ELSE [files |-> (d.files \ {<<old, ext, 0>>}) \cup {<<new, ext, 0>>},
          origin |-> [f \in (d.files \ {<<old, ext, 0>>})
                                  \cup {<<new, ext, 0>>} |->
                         IF f = <<new, ext, 0>> THEN d.origin[<<old, ext, 0>>]
                         ELSE d.origin[f]]]

\* The loop of Rename over extensions = .sock, .info, .log.
renameLoop(d, old, new) ==
    renameExt(renameExt(renameExt(d, old, new, "sock"), old, new, "info"),
              old, new, "log")

\* session.Rename(oldName, newName): the loop, then the name inside
\* new.info is rewritten when ReadInfo reads it; it returns nil.
Rename(old, new) ==
    \E d \in {renameLoop([files |-> dirFiles, origin |-> origin], old, new)} :
       /\ dirFiles' = d.files
       /\ origin' = d.origin
       /\ \E moved \in {IF <<old, "info", 0>> \in dirFiles
                        THEN infoOf[old] ELSE infoOf[new]} :
             infoOf' = [infoOf EXCEPT ![new] =
                          IF <<new, "info", 0>> \in d.files /\ moved.ok
                          THEN [moved EXCEPT !.name = new] ELSE moved]
       /\ listening' = IF <<old, "sock", 0>> \in dirFiles
                       THEN (listening \ {old, new})
                               \cup (IF old \in listening THEN {new} ELSE {})
                       ELSE listening
       /\ renameErr' = FALSE

\* persishtent rename <old> <new>: the new name is validated, then Rename.
RenameCmd(old, new) ==
    /\ NoCallYet
    /\ renameDone' = TRUE
    /\ oldName' = old
    /\ newName' = new
    /\ IF ~ValidateName(new)
       THEN /\ renameErr' = TRUE
            /\ UNCHANGED <<dirFiles, origin, infoOf, listening>>
       ELSE Rename(old, new)
    /\ UNCHANGED <<dirBefore, alivePids, listed, listDone, cleanDone,
                   removedCount, bootPc>>
    /\ UNCHANGED offList

NextList ==
    \/ ListCall
    \/ CleanCall
    \/ \E old \in SessionNames :
          \E new \in SessionNames \cup {InvalidName} : RenameCmd(old, new)

\* What a session may have left in the directory.
Logs(name) == {<<name, "log", 0>>, <<name, "log", 1>>, <<name, "log", 2>>}
AllOf(name) ==
    {<<name, "sock", 0>>, <<name, "info", 0>>, <<name, "ssh_auth_sock", 0>>}
        \cup Logs(name)

\* The states a session is found in: never started; running; its daemon
\* killed, the pid gone; its daemon killed and the pid taken by another
\* process; an info record with pid 0; no info record; an info record that
\* does not parse; ended by itself, the logs left.
SessionKinds == {"none", "live", "dead", "reused", "pidzero", "noinfo",
                 "badinfo", "ended"}

FilesOfKind(name, kind) ==
    IF kind = "none" THEN {}
    ELSE IF kind = "ended" THEN Logs(name)
    ELSE IF kind = "noinfo" THEN AllOf(name) \ {<<name, "info", 0>>}
    ELSE AllOf(name)

InfoOfKind(name, kind) ==
    [ok |-> kind # "badinfo", name |-> name,
     pid |-> IF kind \in {"live", "reused"} THEN LivePid
             ELSE IF kind = "pidzero" THEN 0 ELSE DeadPid]

InitList ==
    /\ InitDaemon /\ NoFrontEnd /\ OthersIdle("list")
    /\ \E kinds \in [SessionNames -> SessionKinds] :
          /\ dirFiles = UNION {FilesOfKind(n, kinds[n]) : n \in SessionNames}
          /\ infoOf = [n \in SessionNames |-> InfoOfKind(n, kinds[n])]
          /\ listening = {n \in SessionNames : kinds[n] = "live"}
    /\ dirBefore = dirFiles
    /\ alivePids = {LivePid}
    /\ listed = <<>>
    /\ listDone = FALSE
    /\ cleanDone = FALSE /\ removedCount = 0
    /\ renameDone = FALSE /\ oldName = 0 /\ newName = 0
    /\ renameErr = FALSE
    /\ origin = [f \in dirFiles |-> f]
    /\ bootPc = "idle"

SpecList == InitList /\ [][NextList]_vars

\* ------------------------------------------ Run's set-up beside a scan
\* The session a daemon is started for, and the pid of its shell.
BootName == 1
NewPid == 3

\* What Run leaves of the bookkeeping of the calls on the directory.
BootKeeps ==
    /\ origin' = [f \in dirFiles' |-> IF f \in DOMAIN origin THEN origin[f]
                                                            ELSE f]
    /\ UNCHANGED <<dirBefore, listed, listDone, cleanDone, removedCount,
                   renameDone, oldName, newName, renameErr>>

\* os.OpenFile(logPath, O_CREATE|O_TRUNC|O_RDWR)
RunOpenLog ==
    /\ bootPc = "open"
    /\ bootPc' = "pty"
    /\ dirFiles' = dirFiles \cup {<<BootName, "log", 0>>}
    /\ UNCHANGED <<infoOf, alivePids, listening>>
    /\ BootKeeps
    /\ UNCHANGED offList

\* pty.Start(cmd): the shell runs from here on.
RunStartPty ==
    /\ bootPc = "pty"
    /\ bootPc' = "info"
    /\ alivePids' = alivePids \cup {NewPid}
    /\ UNCHANGED <<dirFiles, infoOf, listening>>
    /\ BootKeeps
    /\ UNCHANGED offList

\* session.WriteInfo with the pid of the shell.
RunWriteInfo ==
    /\ bootPc = "info"
    /\ bootPc' = "listen"
    /\ dirFiles' = dirFiles \cup {<<BootName, "info", 0>>}
    /\ infoOf' = [infoOf EXCEPT ![BootName] =
                      [ok |-> TRUE, name |-> BootName, pid |-> NewPid]]
    /\ UNCHANGED <<alivePids, listening>>
    /\ BootKeeps
    /\ UNCHANGED offList

\* os.Remove(sockPath), net.Listen("unix", sockPath)
RunListen ==
    /\ bootPc = "listen"
    /\ bootPc' = "serving"
    /\ dirFiles' = dirFiles \cup {<<BootName, "sock", 0>>}
    /\ listening' = listening \cup {BootName}
    /\ UNCHANGED <<infoOf, alivePids>>
    /\ BootKeeps
    /\ UNCHANGED offList

\* The shell exits and cmd.Wait returns.
RunWait ==
    /\ bootPc = "serving"
    /\ bootPc' = "waited"
    /\ alivePids' = alivePids \ {NewPid}
    /\ UNCHANGED <<dirFiles, infoOf, listening>>
    /\ BootKeeps
    /\ UNCHANGED offList

\* Run returns: the deferred l.Close, os.Remove(sockPath),
\* os.Remove(infoPath).
RunDeferred ==
    /\ bootPc = "waited"
    /\ bootPc' = "returned"
    /\ listening' = listening \ {BootName}
    /\ dirFiles' = dirFiles \ {<<BootName, "sock", 0>>,
                                <<BootName, "info", 0>>}
    /\ UNCHANGED <<infoOf, alivePids>>
    /\ BootKeeps
    /\ UNCHANGED offList

NextStartup ==
    \/ RunOpenLog
    \/ RunStartPty
    \/ RunWriteInfo
    \/ RunListen
    \/ RunWait
    \/ RunDeferred
    \/ ListCall
    \/ CleanCall

\* StartSession has found no socket of the session and has spawned the
\* daemon: the session never ran, or ended and left its logs.
InitStartup ==
    /\ InitDaemon /\ NoFrontEnd /\ OthersIdle("list")
    /\ \E kinds \in [SessionNames -> SessionKinds] :
          /\ kinds[BootName] \in {"none", "ended"}
          /\ dirFiles = UNION {FilesOfKind(n, kinds[n]) : n \in SessionNames}
          /\ infoOf = [n \in SessionNames |-> InfoOfKind(n, kinds[n])]
          /\ listening = {n \in SessionNames : kinds[n] = "live"}
    /\ dirBefore = dirFiles
    /\ alivePids = {LivePid}
    /\ listed = <<>>
    /\ listDone = FALSE
    /\ cleanDone = FALSE /\ removedCount = 0
    /\ renameDone = FALSE /\ oldName = 0 /\ newName = 0
    /\ renameErr = FALSE
    /\ origin = [f \in dirFiles |-> f]
    /\ bootPc = "open"

SpecStartup == InitStartup /\ [][NextStartup]_vars

\* ------------------------------------- Attach with replay, output loop
\* The chunks the shell writes while the front-end attaches.
MaxOut == 4

\* client.Handshake: the Mode frame is written to the connection.
LiveHandshake ==
    /\ livePc = "handshake"
    /\ livePc' = "replay"
    /\ UNCHANGED <<liveIn, loopPc, liveLog, liveRx, liveOut>>
    /\ UNCHANGED offLive

\* handleClient has read the Mode frame: s.Clients[conn] = struct{}{}.
LiveInstall ==
    /\ livePc # "handshake"
    /\ ~liveIn
    /\ liveIn' = TRUE
    /\ UNCHANGED <<livePc, loopPc, liveLog, liveRx, liveOut>>
    /\ UNCHANGED offLive

\* The output loop reads the next chunk from the PTY and writes it to the
\* log file.
LoopLog ==
    /\ loopPc = "read"
    /\ Len(liveLog) < MaxOut
    /\ liveLog' = Append(liveLog, Len(liveLog) + 1)
    /\ loopPc' = "broadcast"
    /\ UNCHANGED <<livePc, liveIn, liveRx, liveOut>>
    /\ UNCHANGED offLive

\* srv.broadcast(data): a Data frame to every connection in s.Clients.
LoopBroadcast ==
    /\ loopPc = "broadcast"
    /\ liveRx' = IF liveIn THEN Append(liveRx, Len(liveLog)) ELSE liveRx
    /\ loopPc' = "read"
    /\ UNCHANGED <<livePc, liveIn, liveLog, liveOut>>
    /\ UNCHANGED offLive

\* The replay of Attach: io.Copy(os.Stdout, f) of the log as it is.
LiveReplay ==
    /\ livePc = "replay"
    /\ liveOut' = liveLog
    /\ livePc' = "stream"
    /\ UNCHANGED <<liveIn, loopPc, liveLog, liveRx>>
    /\ UNCHANGED offLive

\* The read loop of Stream: the payload of the next Data frame to stdout.
LiveStream ==
    /\ livePc = "stream"
    /\ liveRx # <<>>
    /\ liveOut' = Append(liveOut, Head(liveRx))
    /\ liveRx' = Tail(liveRx)
    /\ UNCHANGED <<livePc, liveIn, loopPc, liveLog>>
    /\ UNCHANGED offLive

NextLive ==
    \/ LiveHandshake
    \/ LiveInstall
    \/ LoopLog
    \/ LoopBroadcast
    \/ LiveReplay
    \/ LiveStream

\* The session has been running: some chunks are in the log already.
InitLive ==
    /\ InitDaemon /\ NoFrontEnd /\ OthersIdle("live")
    /\ livePc = "handshake"
    /\ liveIn = FALSE
    /\ loopPc = "read"
    /\ liveLog \in {[i \in 1..k |-> i] : k \in 0..(MaxOut - 2)}
    /\ liveRx = <<>>
    /\ liveOut = <<>>

SpecLive == InitLive /\ [][NextLive]_vars

\* --------------------------------------- two start commands, one name
Starters == {1, 2}

\* StartSession: os.Stat(checkPath) finds the socket and the command
\* attaches (or reports that the session exists), or finds none and spawns
\* `persishtent daemon N`.
StartStat(i) ==
    /\ pairPc[i] = "stat"
    /\ pairPc' = [pairPc EXCEPT ![i] = IF sockOwner # 0 THEN "attach"
                                                        ELSE "open"]
    /\ UNCHANGED <<sockOwner, shellsUp>>
    /\ UNCHANGED offPair

\* Run: os.OpenFile(logPath, O_CREATE|O_TRUNC|O_RDWR)
PairOpenLog(i) ==
    /\ pairPc[i] = "open"
    /\ pairPc' = [pairPc EXCEPT ![i] = "pty"]
    /\ UNCHANGED <<sockOwner, shellsUp>>
    /\ UNCHANGED offPair

\* pty.Start(cmd): the shell of daemon i runs.
PairStartPty(i) ==
    /\ pairPc[i] = "pty"
    /\ pairPc' = [pairPc EXCEPT ![i] = "info"]
    /\ shellsUp' = shellsUp \cup {i}
    /\ UNCHANGED sockOwner
    /\ UNCHANGED offPair

\* session.WriteInfo
PairWriteInfo(i) ==
    /\ pairPc[i] = "info"
    /\ pairPc' = [pairPc EXCEPT ![i] = "remove"]
    /\ UNCHANGED <<sockOwner, shellsUp>>
    /\ UNCHANGED offPair

\* os.Remove(sockPath)
PairRemoveSock(i) ==
    /\ pairPc[i] = "remove"
    /\ pairPc' = [pairPc EXCEPT ![i] = "listen"]
    /\ sockOwner' = 0
    /\ UNCHANGED shellsUp
    /\ UNCHANGED offPair

\* net.Listen("unix", sockPath): it binds a new socket file, or fails when
\* the path is taken and Run returns the error, its PTY closed.
PairListen(i) ==
    /\ pairPc[i] = "listen"
    /\ IF sockOwner = 0
          THEN /\ sockOwner' = i
               /\ pairPc' = [pairPc EXCEPT ![i] = "serving"]
               /\ UNCHANGED shellsUp
          ELSE /\ pairPc' = [pairPc EXCEPT ![i] = "failed"]
               /\ shellsUp' = shellsUp \ {i}
               /\ UNCHANGED sockOwner
    /\ UNCHANGED offPair

\* The shell exits and cmd.Wait returns.
PairWait(i) ==
    /\ pairPc[i] = "serving"
    /\ pairPc' = [pairPc EXCEPT ![i] = "waited"]
    /\ shellsUp' = shellsUp \ {i}
    /\ UNCHANGED sockOwner
    /\ UNCHANGED offPair

\* The deferred l.Close() and os.Remove(sockPath): the file at the path
\* goes, whoever bound it.
PairDeferred(i) ==
    /\ pairPc[i] = "waited"
    /\ pairPc' = [pairPc EXCEPT ![i] = "returned"]
    /\ sockOwner' = 0
    /\ UNCHANGED shellsUp
    /\ UNCHANGED offPair

NextPair ==
    \E i \in Starters :
        \/ StartStat(i)
        \/ PairOpenLog(i)
        \/ PairStartPty(i)
        \/ PairWriteInfo(i)
        \/ PairRemoveSock(i)
        \/ PairListen(i)
        \/ PairWait(i)
        \/ PairDeferred(i)

InitPair ==
    /\ InitDaemon /\ NoFrontEnd /\ OthersIdle("pair")
    /\ pairPc = [i \in Starters |-> "stat"]
    /\ sockOwner = 0
    /\ shellsUp = {}

SpecPair == InitPair /\ [][NextPair]_vars

\* ------------------------------------------- Stream: two writers, one conn
\* The goroutines: 1 the input pump, 2 the SIGWINCH handler.
Pump == 1
Resizer == 2
Writers == {Pump, Resizer}

\* The calls of WritePacket each goroutine makes.
MaxMux == 2

\* The frames goroutine g has given to WritePacket.
SentBy(g) ==
    Cardinality({i \in 1..Len(muxSent) :
                    muxSent[i].t = IF g = Pump THEN TypeData ELSE TypeResize})

\* WritePacket up to w.Write(header): type, then the length, big-endian.
WriteHeader(g, t, payload) ==
    /\ muxPc[g] = "idle"
    /\ SentBy(g) < MaxMux
    /\ muxWire' = muxWire \o <<t>> \o PutUint32(Len(payload))
    /\ muxCur' = [muxCur EXCEPT ![g] = payload]
    /\ muxPc' = [muxPc EXCEPT ![g] = "payload"]
    /\ muxSent' = Append(muxSent, Frame(t, payload))
    /\ UNCHANGED offMux

\* WritePacket: w.Write(payload)
WritePayload(g) ==
    /\ muxPc[g] = "payload"
    /\ muxWire' = muxWire \o muxCur[g]
    /\ muxCur' = [muxCur EXCEPT ![g] = <<>>]
    /\ muxPc' = [muxPc EXCEPT ![g] = "idle"]
    /\ UNCHANGED muxSent
    /\ UNCHANGED offMux

\* processInput sends a keystroke, or the detach key and the byte after it.
PumpData ==
    \E n \in 1..2 : \E p \in [1..n -> {CharD, CharX}] :
        WriteHeader(Pump, TypeData, p)

\* sendResize(c.Conn) on SIGWINCH.
WinchResize ==
    WriteHeader(Resizer, TypeResize, ResizePayload(TermSize[1], TermSize[2]))

NextMux ==
    \/ PumpData
    \/ WinchResize
    \/ \E g \in Writers : WritePayload(g)

InitMux ==
    /\ InitDaemon /\ NoFrontEnd /\ OthersIdle("mux")
    /\ muxPc = [g \in Writers |-> "idle"]
    /\ muxCur = [g \in Writers |-> <<>>]
    /\ muxWire = <<>>
    /\ muxSent = <<>>

SpecMux == InitMux /\ [][NextMux]_vars

\* The frames a loop of ReadPacket takes from the bytes w: a header of five
\* bytes, then as many payload bytes as it declares; the loop stops where
\* the bytes end.
RECURSIVE decodeAll(_)
decodeAll(w) ==
    IF Len(w) < 5 THEN <<>>
    ELSE LET n == Uint32(SubSeq(w, 2, 5)) IN
         IF Len(w) < 5 + n THEN <<>>
         ELSE <<Frame(w[1], SubSeq(w, 6, 5 + n))>>
                  \o decodeAll(SubSeq(w, 6 + n, Len(w)))

\* -------------------------------------------------------------------- C20
\* The sessions with a .sock entry when List was called.
SockEntries == {n \in SessionNames : <<n, "sock", 0>> \in dirBefore}

\* Those of them with a readable info record that pass is_alive.
LiveEntries ==
    {n \in SockEntries :
        /\ <<n, "info", 0>> \in dirBefore /\ infoOf[n].ok
        /\ infoOf[n].pid > 0 /\ infoOf[n].pid \in alivePids
        /\ n \in listening}

\* C20: List returns exactly the sessions with a .sock entry, a readable
\* info record and a live pid and socket, each once; of every other session
\* with a .sock entry no artifact is left -- .sock, .info, .ssh_auth_sock,
\* .log, .log.K; the files of all other sessions are as they were.
C20_ListAndClean ==
    listDone =>
        /\ {listed[i] : i \in 1..Len(listed)} = LiveEntries
        /\ Len(listed) = Cardinality(LiveEntries)
        /\ \A n \in SockEntries \ LiveEntries :
              \A f \in dirFiles : f[1] # n
        /\ \A n \in SessionNames \ (SockEntries \ LiveEntries) :
              \A f \in dirBefore : f[1] = n => f \in dirFiles

\* List returned session 1 alone and removed every file of session 2, whose
\* pid had been taken by another process, and of session 3, whose info
\* record did not parse.
C20_Witness ==
    /\ listDone
    /\ listed = <<1>>
    /\ infoOf[2].pid = LivePid /\ infoOf[2].ok
    /\ ~infoOf[3].ok
    /\ AllOf(2) \cup AllOf(3) \subseteq dirBefore
    /\ dirFiles = AllOf(1)

\* -------------------------------------------------------------------- C21
\* The sessions that are alive when Clean is called: the info record is
\* there and reads, its pid is positive and answers, and the socket of the
\* session accepts a connection.
AliveSessions ==
    {n \in SessionNames :
        /\ <<n, "info", 0>> \in dirBefore /\ infoOf[n].ok
        /\ infoOf[n].pid > 0 /\ infoOf[n].pid \in alivePids
        /\ <<n, "sock", 0>> \in dirBefore /\ n \in listening}

\* C21: Clean removes every artifact -- .sock, .info, .log, .log.K,
\* .ssh_auth_sock -- of a session that is not alive, removes no file of an
\* alive session, and returns the number of files it removed.
C21_CleanRemovesStale ==
    cleanDone =>
        /\ \A f \in dirBefore : f[1] \notin AliveSessions => f \notin dirFiles
        /\ \A f \in dirBefore : f[1] \in AliveSessions => f \in dirFiles
        /\ dirFiles \subseteq dirBefore
        /\ removedCount = Cardinality(dirBefore \ dirFiles)

\* Clean kept session 1, alive, and removed the nine files of session 2,
\* whose pid another process had taken, and of session 3, ended with its
\* rotated logs left.
C21_Witness ==
    /\ cleanDone
    /\ AliveSessions = {1}
    /\ infoOf[2].pid = LivePid /\ AllOf(2) \subseteq dirBefore
    /\ Logs(3) \subseteq dirBefore /\ <<3, "info", 0>> \notin dirBefore
    /\ dirFiles = AllOf(1)
    /\ removedCount = 9

\* -------------------------------------------------------------------- C22
\* The artifacts of the session named n when rename was called.
ArtifactsBefore(n) == {f \in dirBefore : f[1] = n}

\* No file was moved, replaced or removed.
DirectoryUntouched ==
    /\ dirFiles = dirBefore
    /\ \A f \in dirFiles : origin[f] = f

\* C22: rename(old, new) fails and leaves every artifact of both names as
\* it was when new is not a valid name or when artifacts of a session named
\* new already exist; the socket, info and log of an existing session are
\* never overwritten.
C22_RenameRefuses ==
    renameDone =>
        /\ (~ValidateName(newName) \/ ArtifactsBefore(newName) # {})
              => renameErr /\ DirectoryUntouched
        /\ \A f \in dirBefore :
              f[1] # oldName /\ f[2] \in {"sock", "info", "log"} /\ f[3] = 0
                 => f \in dirFiles /\ origin[f] = f

\* The part that the validation in the command keeps: a name that
\* ValidateName refuses ends the command with an error and nothing moved.
C22_InvalidRefused ==
    renameDone /\ ~ValidateName(newName) => renameErr /\ DirectoryUntouched

\* -------------------------------------------------------------------- C23
\* The indices in S, ascending.
RECURSIVE ascendingSeq(_)
ascendingSeq(S) ==
    IF S = {} THEN <<>>
    ELSE LET least == CHOOSE k \in S : \A j \in S : k <= j
         IN <<least>> \o ascendingSeq(S \ {least})

\* GetLogFiles(name) on the files of the directory: the rotated logs by
\* ascending index, then the active log, each given as the file it was
\* when the call began.
logFilesOf(files, org, name) ==
    LET rotated == ascendingSeq({f[3] : f \in {g \in files :
                        g[1] = name /\ g[2] = "log" /\ g[3] > 0}})
        paths == [i \in 1..Len(rotated) |-> org[<<name, "log", rotated[i]>>]]
    IN IF <<name, "log", 0>> \in files
       THEN Append(paths, org[<<name, "log", 0>>]) ELSE paths

\* C23: after a successful rename(old, new) no artifact named old.* is
\* left; every artifact of the session -- .sock, .info, .log, every .log.K,
\* .ssh_auth_sock -- is there under the new name; log_files(new) returns
\* the segments log_files(old) returned before, in the same order; and the
\* name read back from new.info is new.
C23_RenameMovesAll ==
    renameDone /\ ~renameErr /\ oldName # newName
               /\ ArtifactsBefore(oldName) # {}
               /\ ArtifactsBefore(newName) = {} =>
        /\ \A f \in dirFiles : f[1] # oldName
        /\ \A f \in ArtifactsBefore(oldName) :
              /\ <<newName, f[2], f[3]>> \in dirFiles
              /\ origin[<<newName, f[2], f[3]>>] = f
        /\ logFilesOf(dirFiles, origin, newName)
              = logFilesOf(dirBefore, [f \in dirBefore |-> f], oldName)
        /\ (<<oldName, "info", 0>> \in dirBefore /\ infoOf[newName].ok)
              => infoOf[newName].name = newName

\* The part Rename does: old.sock, old.info and old.log are there under the
\* new name, holding what they held, and new.info names the session new.
C23_CoreMoved ==
    renameDone /\ ~renameErr /\ oldName # newName
               /\ ArtifactsBefore(newName) = {} =>
        /\ \A f \in ArtifactsBefore(oldName) :
              f[2] \in {"sock", "info", "log"} /\ f[3] = 0 =>
                 /\ f \notin dirFiles
                 /\ <<newName, f[2], 0>> \in dirFiles
                 /\ origin[<<newName, f[2], 0>>] = f
        /\ (<<newName, "info", 0>> \in dirFiles /\ infoOf[newName].ok)
              => infoOf[newName].name = newName

\* -------------------------------------------------------------------- C24
\* C24: when the shell has exited -- by itself, by a Signal frame, or killed
\* by the daemon on SIGTERM or SIGINT -- the daemon has removed N.sock,
\* N.info and N.ssh_auth_sock by the time it exits; the logs stay.  Run has
\* no step that removes a log, so the formula is about the three transient
\* files.
C24_TransientsRemoved ==
    daemon = "exited" => ~sockFile /\ ~infoFile /\ symlink = 0

\* The part the deferred function of Run does: N.sock and N.info are gone
\* and the listener is closed when the daemon has exited.
C24_SockInfoRemoved ==
    daemon = "exited" => ~sockFile /\ ~infoFile /\ listener = "closed"

\* ------------------------------------------------------------------- main
\* A front-end that does not look at PERSISHTENT_SESSION.
checkNestingOff == FALSE

\* checkNesting() prints the error and exits with status 1.
checkNesting == nesting

\* os.Exit(1) in checkNesting.
NestingExit ==
    /\ nestingErr' = TRUE
    /\ exitStatus' = 1
    /\ UNCHANGED <<spawned, dialed, listOut>>

\* main returns; sd is <<a daemon was started, a connection was asked for>>.
MainReturns(sd) ==
    /\ spawned' = sd[1]
    /\ dialed' = sd[2]
    /\ exitStatus' = 0
    /\ UNCHANGED <<nestingErr, listOut>>

\* startSession(name, detach, ...): what it may do when the socket of name
\* is there or not: attach to the session found, or start the daemon and,
\* unless detached, attach once the socket has appeared.
startSession(there, detach) ==
    IF there THEN (IF detach THEN {<<FALSE, FALSE>>} ELSE {<<FALSE, TRUE>>})
    ELSE {<<FALSE, FALSE>>}                      \* cmd.Start failed
            \cup (IF detach THEN {<<TRUE, FALSE>>}
                  ELSE {<<TRUE, TRUE>>,          \* the socket appeared
                        <<TRUE, FALSE>>})        \* timed out waiting

\* attachSession(name, ...)
attachSession == {<<FALSE, TRUE>>}

\* What every case of main leaves alone, and its end.
MainStep(cmds) ==
    /\ mainPc = "entry"
    /\ argCmd \in cmds
    /\ mainPc' = "done"
    /\ UNCHANGED <<nesting, argCmd, argName, argFlag, sockThere, nLive>>
    /\ UNCHANGED offCli

\* len(os.Args) < 2: the name generateAutoName returns has no socket.
MainBare ==
    /\ MainStep({"bare"})
    /\ IF checkNesting THEN NestingExit
       ELSE \E sd \in startSession(FALSE, FALSE) : MainReturns(sd)

\* case "start", "s"
MainStart ==
    /\ MainStep({"start"})
    /\ IF checkNesting THEN NestingExit
       ELSE IF argName = "invalid" THEN MainReturns(<<FALSE, FALSE>>)
       ELSE \E sd \in startSession(argName = "valid" /\ sockThere, argFlag) :
               MainReturns(sd)

\* case "attach", "a"
MainAttach ==
    /\ MainStep({"attach"})
    /\ IF checkNesting THEN NestingExit
       ELSE IF argName # "none" \/ nLive = 1
            THEN \E sd \in attachSession : MainReturns(sd)
            ELSE MainReturns(<<FALSE, FALSE>>)

\* case "kill", "k"
MainKill ==
    /\ MainStep({"kill"})
    /\ IF argFlag THEN MainReturns(<<FALSE, nLive > 0>>)
       ELSE MainReturns(<<FALSE, argName # "none">>)

\* case "list", "ls"
MainList ==
    /\ MainStep({"list"})
    /\ listOut' = TRUE
    /\ exitStatus' = 0
    /\ UNCHANGED <<spawned, dialed, nestingErr>>

\* case "help"
MainHelp ==
    /\ MainStep({"help"})
    /\ MainReturns(<<FALSE, FALSE>>)

\* default: the word is taken as a session name.
MainDefault ==
    /\ MainStep({"other"})
    /\ IF checkNesting THEN NestingExit
       ELSE IF sockThere THEN \E sd \in attachSession : MainReturns(sd)
       ELSE \E sd \in startSession(sockThere, FALSE) : MainReturns(sd)

NextCli ==
    \/ MainBare
    \/ MainStart
    \/ MainAttach
    \/ MainKill
    \/ MainList
    \/ MainHelp
    \/ MainDefault

MaxLive == 2

InitCli ==
    /\ InitDaemon /\ NoFrontEnd /\ OthersIdle("cli")
    /\ nesting \in BOOLEAN
    /\ argCmd \in {"bare", "start", "attach", "kill", "list", "help", "other"}
    /\ argName \in {"none", "valid", "invalid"}
    /\ argCmd \in {"bare", "list", "help"} => argName = "none"
    /\ argCmd = "other" => argName = "valid"
    /\ argFlag \in BOOLEAN
    /\ argCmd \notin {"start", "kill"} => argFlag = FALSE
    /\ sockThere \in BOOLEAN
    /\ argName = "none" => sockThere = FALSE
    /\ nLive \in 0..MaxLive
    /\ mainPc = "entry"
    /\ spawned = FALSE /\ dialed = FALSE /\ listOut = FALSE
    /\ nestingErr = FALSE
    /\ exitStatus = -1

SpecCli == InitCli /\ [][NextCli]_vars

\* -------------------------------------------------------------------- C25
\* The start and attach paths of main: the bare invocation, start, attach
\* and the name shortcut.
StartOrAttachPath == argCmd \in {"bare", "start", "attach", "other"}

MaxAuto == 10

\* A front-end that names the next session by the count of the sessions.
FindNextAutoNameByCount(used) == Itoa(Cardinality(used))

\* The loop of FindNextAutoName from i on.
RECURSIVE autoNameFrom(_, _)
autoNameFrom(used, i) ==
    IF Itoa(i) \notin used THEN Itoa(i) ELSE autoNameFrom(used, i + 1)

\* FindNextAutoName(existingNames)
FindNextAutoName(used) == autoNameFrom(used, 0)

\* The names sessions may have: 0 .. MaxAuto in decimal, and names that are
\* no decimal form of a number: "x", "1x", "01", "00".
NamePool ==
    {Itoa(k) : k \in 0..MaxAuto}
        \cup {<<CharX>>, <<1, CharX>>, <<0, 1>>, <<0, 0>>}

AutoNameCall ==
    /\ ~autoDone
    /\ autoName' = FindNextAutoName(usedNames)
    /\ autoDone' = TRUE
    /\ UNCHANGED usedNames
    /\ UNCHANGED offAuto

NextAuto == AutoNameCall

InitAuto ==
    /\ InitDaemon /\ NoFrontEnd /\ OthersIdle("auto")
    /\ usedNames \in SUBSET NamePool
    /\ autoName = <<>>
    /\ autoDone = FALSE

SpecAuto == InitAuto /\ [][NextAuto]_vars

\* -------------------------------------------------------------------- C26
\* The decimal form of n: its digits, most significant first, no leading
\* zero but for 0 itself.
IsDecimalOf(d, n) ==
    /\ Len(d) >= 1
    /\ \A i \in 1..Len(d) : d[i] \in 0..9
    /\ Len(d) > 1 => d[1] # 0
    /\ Atoi(d) = n

\* n has its decimal form among the used names.
Taken(n) == \E d \in usedNames : IsDecimalOf(d, n)

\* C26: FindNextAutoName(used) returns the decimal form, without leading
\* zeros, of the smallest non-negative integer whose decimal form is not in
\* used: names that are no such form block no number, and gaps are filled
\* before larger numbers are used.
C26_SmallestFree ==
    autoDone =>
        \E n \in 0..(MaxAuto + 1) :
            /\ IsDecimalOf(autoName, n)
            /\ ~Taken(n)
            /\ \A k \in 0..(n - 1) : Taken(k)

\* With 0, 2, 10, "x" and "01" taken the gap 1 was filled.
C26_Witness ==
    /\ autoDone
    /\ usedNames = {<<0>>, <<2>>, <<1, 0>>, <<CharX>>, <<0, 1>>}
    /\ autoName = <<1>>

\* With 0 .. 9 taken the name returned has two digits.
C26_WitnessTwoDigits ==
    /\ autoDone
    /\ usedNames = {Itoa(k) : k \in 0..9} \cup {<<0, 0>>}
    /\ autoName = <<1, 0>>

\* -------------------------------------------------------------------- C27
\* The handlers that are in the switch, a frame read and about to be
\* applied to the PTY.
InSwitch == {c \in Conns : pc[c] = "switch"}

\* C27: at any time at most one handler writes to the PTY, and it is the
\* handler of the connection in the master slot: once a new master is
\* installed no Data, Resize, Signal or Env frame of the displaced master
\* is applied, a frame it had read before the kick included.
C27_OnlyMasterWrites ==
    /\ [](Cardinality(InSwitch) <= 1)
    /\ [][\A c \in Conns : Dispatch(c) => Master = c]_vars

\* What the kick does keep: a handler applies a frame while another
\* connection has the slot only if it was kicked and closed with that frame
\* already read; its connection being closed, its next read fails.
C27_OneStaleFrame ==
    [][\A c \in Conns :
          Dispatch(c) /\ Master # c => srvClosed[c] /\ kicks[c] >= 1]_vars

\* -------------------------------------------------------------------- C28
\* C28: when broadcast fails to write a Data frame to a peer, the peer's
\* connection is closed and removed from the peer set and, if it had the
\* master slot, the slot is cleared within the same call.
C28_FailedPeerDropped ==
    [][OutputRead =>
          \A c \in BroadcastDropped :
              /\ srvClosed'[c]
              /\ c \notin Clients'
              /\ Master = c => Master' = NoConn]_vars

\* What broadcast does for a peer whose write fails: it closes it and
\* deletes it from the peer set; the slot is left to the peer's handler.
C28_ClosedAndRemoved ==
    [][OutputRead =>
          /\ \A c \in BroadcastDropped : srvClosed'[c] /\ c \notin Clients'
          /\ Master' = Master]_vars

\* -------------------------------------------------------------------- C29
\* C29: a handler that ends removes its own connection from the peer set
\* and clears the master slot if and only if the slot still refers to that
\* connection: when the handler of a displaced master ends after its
\* successor was installed, the successor stays in the slot and in the peer
\* set.
C29_OwnCleanupOnly ==
    [][\A c \in Conns :
          Defer(c) =>
              /\ Clients' = Clients \ {c}
              /\ Master = c => Master' = NoConn
              /\ Master # c => Master' = Master
              /\ (Master # c /\ Master \in Clients) => Master' \in Clients']_vars

\* The handler of the displaced master has ended; its successor has the
\* slot and is in the peer set, the displaced connection is not.
C29_Witness ==
    \E c, d \in Conns :
        /\ c # d
        /\ pc[c] = "done" /\ kicks[c] = 1 /\ IsMasterRole(c)
        /\ c \notin Clients
        /\ Master = d /\ d \in Clients /\ ~srvClosed[d]

\* -------------------------------------------------------------------- C30
\* C30: when a step of a rotation fails -- listing the segments or renaming
\* the active one -- the sink falls back to appending to the active
\* segment: no byte written to it before is truncated or lost, and the
\* write that set off the rotation is recorded after those bytes.
C30_FallbackAppends ==
    rotFailed => FileNamed(logDir, ActiveLog).data = activeWas \o lastP

\* What the active segment holds after a failed rotation: the new bytes
\* alone when reopen truncated it, the old and the new when only the
\* appending open worked, the old alone when none did.
C30_ReopenOutcomes ==
    rotFailed =>
        FileNamed(logDir, ActiveLog).data
            \in {lastP, activeWas \o lastP, activeWas}

\* -------------------------------------------------------------------- C31
\* The history: the segments in log_files order, one after the other.
RECURSIVE Flatten(_)
Flatten(segs) == IF segs = <<>> THEN <<>>
                 ELSE Head(segs) \o Flatten(Tail(segs))

\* C31: attaching with replay and tail = N > 0 to a session with several
\* segments writes exactly the last N newline-terminated lines of the
\* concatenation of the segments in log_files order, not the last N lines
\* of each segment.
C31_TailAcrossSegments ==
    tailDone => tailOut = LastLines(Flatten(tailSegs), tailN)

\* What the loop does write: the last N lines of each segment in turn.
C31_TailPerSegment ==
    tailDone =>
        tailOut = Flatten([i \in 1..Len(tailSegs) |->
                              LastLines(tailSegs[i], tailN)])

\* -------------------------------------------------------------------- C32
\* No processInput call has failed and stdin is open: the front-end has not
\* detached and both ends of the connection are up.
Healthy == stdinOpen /\ detached = 0 /\ connOpen /\ peerUp

SeqRange(s) == {s[i] : i \in 1..Len(s)}

\* Every byte read from stdin is in exactly one place: handed to
\* processInput, cut out of the drain buffer, or still in the drain buffer.
Accounted ==
    LET inBuf == BufPositions(1, Len(drainBuf)) IN
    /\ SeqRange(fed) \cup dropped \cup inBuf = 1..Len(stdinLog)
    /\ SeqRange(fed) \cap dropped = {}
    /\ SeqRange(fed) \cap inBuf = {}
    /\ dropped \cap inBuf = {}

\* The positions of the response the match loop finds at the first ESC of
\* the drain buffer, none when it finds no response.
SwallowedSpan ==
    LET seqLen == matchTerminalResponse(drainBuf)
        escIdx == IndexESC(drainBuf) IN
    IF dpc = "match" /\ seqLen > 0
       THEN BufPositions(escIdx + 1, escIdx + seqLen)
       ELSE {}

\* C32: over the drain phase and the steady state together the bytes handed
\* to processInput are the bytes read from stdin less the swallowed response
\* spans, in the order read: each step hands over positions in ascending
\* order, every byte read is accounted for, and while stdin is open and no
\* call has failed the only bytes cut out are those of a response found by
\* the match loop, the drain loop leaves nothing in its buffer when it ends
\* (on a timer or on the safety limit) and the Data frames sent are those of
\* the bytes handed over, in that order.
C32_HandoverInOrder ==
    [][ /\ Ascending(fed')
        /\ Accounted'
        /\ Healthy' =>
             /\ dropped' \ dropped \subseteq SwallowedSpan
             /\ dpc' = "stream" => drainBuf' = <<>>
             /\ SelectSeq(sent', IsDataFrame) = C8_FramesOfFed' ]_vars

\* The drain buffer ESC [ 1 outgrew the safety limit and was flushed as user
\* input, the drain loop ended and the pump handed over the next chunk:
\* the four bytes were handed over in the order read and none was cut out.
C32_Witness ==
    /\ Healthy
    /\ ~ReadOnly
    /\ stdinLog = <<ESC, CharCSI, CharOne, CharD>>
    /\ nReads = 2
    /\ fed = <<1, 2, 3, 4>>
    /\ dropped = {}
    /\ dpc = "stream"
    /\ apc = "reading"
    /\ Len(SelectSeq(sent, IsDataFrame)) = 4

\* -------------------------------------------------------------------- C33
IsSuffix(s, t) ==
    /\ Len(s) <= Len(t)
    /\ s = SubSeq(t, Len(t) - Len(s) + 1, Len(t))

\* The bytes written to the session's log so far, oldest first: those an
\* earlier daemon left in a rotated segment, then those of this sink.
LogStream ==
    (IF fresh THEN <<>> ELSE EarlierSegment.data) \o [i \in 1..written |-> i]

\* C33: after any sequence of writes and rotations, the files in log_files
\* order, one after the other, are a contiguous suffix of the byte stream
\* written to the log: a rotation discards the oldest bytes only, never
\* bytes in the middle of the retained history.
C33_ContiguousSuffix ==
    IsSuffix(Concat(logDir, GetLogFiles(logDir)), LogStream)

\* Rotations have discarded the oldest bytes of the sink and three segments
\* with bytes in them are left.
C33_Witness ==
    /\ fresh
    /\ Cardinality(logDir) = 3
    /\ \A f \in logDir : f.data # <<>>
    /\ Len(Concat(logDir, GetLogFiles(logDir))) < written

\* -------------------------------------------------------------------- C34
\* C34: in every reachable state in which the broadcaster lock is free, the
\* master slot is empty or refers to a connection that is in the peer set
\* and that the daemon has not closed, whatever the interleaving of master
\* installs, observer installs, peer disconnects and publish write failures.
C34_MasterIsLivePeer ==
    Lock = LockFree =>
        \/ Master = NoConn
        \/ Master \in Clients /\ ~srvClosed[Master]

\* What does hold: the connection in the master slot declared the master
\* role and its handler has not run its cleanup yet; it is out of the peer
\* set only after a publish closed it on a failed write.
C34_MasterHandlerPending ==
    (Lock = LockFree /\ Master # NoConn) =>
        /\ IsMasterRole(Master)
        /\ pc[Master] # "done"
        /\ Master \notin Clients => srvClosed[Master]

\* -------------------------------------------------------------------- C35
\* The shell of the session being started is running.
BootShellRunning == bootPc \in {"info", "listen", "serving"}

\* The socket, the info record and the log files of the session.
BootArtifacts ==
    {f \in dirFiles : f[1] = BootName /\ f[2] \in {"sock", "info", "log"}}

\* C35: a registry scan (List or Clean) that runs beside a daemon removes
\* none of the .sock, .info and log files of a session whose shell is
\* running, at any point of the daemon's life, the start-up window (log
\* open, info written, socket not yet listening) included.
C35_ScanSparesRunning ==
    [][(BootShellRunning /\ (ListCall \/ CleanCall))
          => BootArtifacts \subseteq dirFiles']_vars

\* What holds: List, which looks at the .sock entries only, removes nothing
\* of the session while its shell runs, and neither scan does once the
\* socket is listening.
C35_ListSparesRunning ==
    [][ /\ (BootShellRunning /\ ListCall) => BootArtifacts \subseteq dirFiles'
        /\ (bootPc = "serving" /\ CleanCall)
              => BootArtifacts \subseteq dirFiles' ]_vars

\* -------------------------------------------------------------------- C36
\* The front-end has caught up: it is installed, the output loop is between
\* two chunks and no Data frame is waiting on the connection.
CaughtUp ==
    livePc = "stream" /\ liveIn /\ loopPc = "read" /\ liveRx = <<>>

\* C36: for a front-end that attaches with full replay while the shell
\* keeps producing output, the bytes written to its stdout (the replay, then
\* the live Data frames) hold every output byte exactly once and in PTY
\* order: none is both in the replay and in a Data frame, and none produced
\* between the handshake and the end of the replay is missing.
C36_ExactlyOnce ==
    /\ Ascending(liveOut)
    /\ CaughtUp => liveOut = liveLog

\* What holds: stdout is the log as it was at the replay followed by a run
\* of consecutive chunks, the ones broadcast since the install.
C36_ReplayThenLive ==
    livePc = "stream" =>
        \E k \in 0..Len(liveOut) :
            /\ SubSeq(liveOut, 1, k) = [i \in 1..k |-> i]
            /\ \A i \in (k + 1)..(Len(liveOut) - 1) :
                  liveOut[i + 1] = liveOut[i] + 1

\* -------------------------------------------------------------------- C37
\* C37: every chunk the shell wrote to the PTY before it exited has been
\* written to the log and passed to broadcast when the daemon removes its
\* artifacts and exits: the return of Run after cmd.Wait never overtakes the
\* output loop.
C37_OutputDrainedAtExit ==
    daemon = "exited" => nPub = produced

\* What holds: the output loop itself ends only when it has read, logged
\* and broadcast everything the shell wrote.
C37_LoopEndsDrained ==
    /\ nPub <= produced
    /\ outLoop = "stopped" => nPub = produced

\* -------------------------------------------------------------------- C38
\* The start commands that spawned a daemon, and those whose daemon started
\* a shell.
DaemonsMade == {i \in Starters : pairPc[i] \notin {"stat", "attach"}}
ShellsMade ==
    {i \in Starters : pairPc[i] \notin {"stat", "attach", "open", "pty"}}

\* C38: under any interleaving of two start commands for one session name,
\* at most one daemon and one shell are created for the name, and the
\* socket of a running daemon is never unlinked or replaced by the other
\* daemon, neither when that one starts nor when it exits.
C38_OneDaemonOneSocket ==
    /\ [](Cardinality(DaemonsMade) <= 1 /\ Cardinality(ShellsMade) <= 1)
    /\ [][\A i \in Starters :
             (pairPc[i] = "serving" /\ sockOwner = i /\ pairPc'[i] = "serving")
                => sockOwner' = i]_vars

\* What holds: a start command that finds the socket spawns nothing, and at
\* any time the socket file belongs to at most one daemon, one that has
\* bound it and has not returned.
C38_LateStartAttaches ==
    /\ [][\A i \in Starters :
             (pairPc[i] = "stat" /\ sockOwner # 0)
                => pairPc'[i] \in {"stat", "attach"}]_vars
    /\ [](sockOwner # 0 => pairPc[sockOwner] \in {"serving", "waited"})

\* -------------------------------------------------------------------- C39
Occurrences(s, f) == Cardinality({i \in 1..Len(s) : s[i] = f})

\* The same frames, in some order.
SameFrames(s, t) ==
    /\ Len(s) = Len(t)
    /\ \A i \in 1..Len(s) : Occurrences(s, s[i]) = Occurrences(t, s[i])

\* C39: on a front-end's connection every frame is written contiguously:
\* the header and payload of a Data frame of the input pump are never
\* interleaved with the bytes of a Resize frame the window-change handler
\* writes at the same time, so that the daemon decodes exactly the frames
\* the front-end sent, in some order.
C39_FramesContiguous ==
    (\A g \in Writers : muxPc[g] = "idle")
        => SameFrames(decodeAll(muxWire), muxSent)

\* What holds: the frames arrive whole as long as one goroutine alone has
\* written, and no byte is lost or added.
C39_OneWriterIntact ==
    (\A g \in Writers : muxPc[g] = "idle") =>
        /\ (SentBy(Pump) = 0 \/ SentBy(Resizer) = 0)
              => decodeAll(muxWire) = muxSent
        /\ Len(muxWire) = Len(Flatten([i \in 1..Len(muxSent) |->
                                          <<0, 0, 0, 0, 0>> \o muxSent[i].p]))

\* -------------------------------------------------------------------- C40
\* C40: a connection is placed in the master slot only if its Mode frame
\* declared role 0x00: a Mode frame whose role byte is neither 0x00 nor
\* 0x01 never makes the connection the master, never kicks the current
\* master and never lets the connection write to the PTY.
C40_OnlyDeclaredMaster ==
    /\ [](Master # NoConn => role[Master] = ModeMaster)
    /\ [][\A c \in Conns :
             (role[c] \notin {NoRole, ModeMaster, ModeReadOnly}
                 /\ HandlerStep(c))
                => UNCHANGED <<Master, kicks, ptyIn>>]_vars

\* What holds: the master slot takes every connection whose role byte is
\* not 0x01, and only those.
C40_NotObserverIsMaster ==
    /\ Master # NoConn => role[Master] \notin {NoRole, ModeReadOnly}
    /\ \A c \in Conns :
          (Lock = LockFree /\ Installed(c) /\ role[c] = ModeReadOnly)
             => Master # c

====
